---- MODULE Spec2Model ----
(***************************************************************************)
(* Verification model of the web research subsystem of the Parallax        *)
(* Connect server: URL safety validation (server/utils/security.py) and    *)
(* the search service (server/services/web_search.py).                     *)
(***************************************************************************)
EXTENDS Integers, Sequences, FiniteSets, TLC

VARIABLES
    \* ---- validate_url (security.py) ----
    v_url,              \* the URL handed to validate_url: has it a hostname
    v_dns,              \* what socket.getaddrinfo does for it
    v_result,           \* [returned, value]: the value validate_url returned
    \* ---- configuration read at construction (web_search.py __init__) ----
    allowed_domains,    \* self.allowed_domains
    _rate_limit,        \* self._rate_limit
    \* ---- one _scrape_url call (web_search.py) ----
    s_pc,               \* position of the coroutine
    s_url,              \* the url argument
    current_url,
    redirect_count,
    resp,               \* last response of client.get
    s_result,           \* [returned, text]: the returned string
    _scrape_semaphore,  \* free slots of self._scrape_semaphore
    requests,           \* history: URLs handed to client.get, in order
    validations,        \* history: validate_url calls [url, dns, is_safe]
    connected_to,       \* history: the address the latest request went to
    \* ---- search() and the rate limiter (web_search.py) ----
    now,                \* time.time(), in seconds
    _timestamps,        \* self._timestamps
    stub,               \* what the provider and the web answer
    last_call,          \* arguments of the latest search() call
    response,           \* what the latest search() call gave its caller
    scrape_log,         \* history: _scrape_url calls of the latest search
    \* ---- the provider-client pool and the default executor ----
    _ddgs_pool,         \* self._ddgs_pool: the queue of free DDGS instances
    c_pc,               \* per _search_ddg call: position of the coroutine
    c_fut,              \* per call: state of the future it awaits
    work_queue,         \* work items the executor has not started
    running,            \* _do_search closures running in worker threads
    running_other,      \* other jobs running in worker threads
    loop_ready,         \* put_nowait callbacks handed to the event loop
    executor_shutdown,  \* the default executor refuses new work
    \* ---- the intent classifier (search_router.py) ----
    _intent_cache,      \* _BoundedTTLCache._cache, oldest entry first
    _max_size,          \* _BoundedTTLCache._max_size
    intent_calls,       \* per classify_intent call: position, query, result
    decided,            \* history: per key, the latest model-derived decision
    used_since,         \* history: per key, the other keys used since its last use
    \* ---- content extraction (web_search.py, _scrape_url) ----
    document,           \* the elements of the parsed page, in document order
    extracted,          \* what the extraction removed, selected and returned
    \* ---- truncation (web_search.py, _scrape_url) ----
    words,              \* text.split() of the selected content
    max_words,          \* the max_words argument of _scrape_url
    final_text,         \* [done, value]: the truncated text
    \* ---- password authentication (auth/password.py) ----
    _rate_limiter,      \* the RateLimiter: failed_attempts, blocked_ips, counter
    auth_log,           \* history: the check_password calls and their outcome
    \* ---- the UI proxy (apis/ui_proxy.py, utils/security.py) ----
    p_request,          \* the call: endpoint, path, body length, upstream
    p_outcome,          \* what the call returned or raised
    \* ---- concurrent search() calls and the rate limiter ----
    limiter_calls,      \* per search() call: position and admission time
    admitted,           \* history: the times of the admitted calls, in order
    \* ---- concurrent _scrape_url calls and the semaphore ----
    scrapers,           \* per _scrape_url call: position of the coroutine
    \* ---- _BoundedTTLCache on its own (search_router.py) ----
    cache_op            \* history: the latest operation and the order of use

validate_vars == <<v_url, v_dns, v_result>>
config_vars == <<allowed_domains, _rate_limit>>
scrape_vars == <<s_pc, s_url, current_url, redirect_count, resp, s_result,
                 _scrape_semaphore, requests, validations, connected_to>>
search_vars == <<now, _timestamps, stub, last_call, response, scrape_log>>
pool_vars == <<_ddgs_pool, c_pc, c_fut, work_queue, running, running_other,
               loop_ready, executor_shutdown>>

router_vars == <<_intent_cache, _max_size, intent_calls, decided, used_since>>
extract_vars == <<document, extracted>>

\* The variables of the components specified after the pool.
truncate_vars == <<words, max_words, final_text>>

auth_vars == <<_rate_limiter, auth_log>>

\* The variables of the components specified after the extraction.
proxy_vars == <<p_request, p_outcome>>

\* The variables of the components specified after the authentication.
limiter_vars == <<limiter_calls, admitted>>
late_vars == <<proxy_vars, limiter_vars, scrapers, cache_op>>

tail_vars == <<truncate_vars, auth_vars, late_vars>>

\* The variables of the components specified before the truncation.
head_vars == <<validate_vars, config_vars, scrape_vars, search_vars, pool_vars,
               router_vars, extract_vars>>

\* What an action of one of the later components leaves alone.
not_truncate_vars == <<head_vars, auth_vars, late_vars>>
not_auth_vars == <<truncate_vars, late_vars>>
early_vars == <<head_vars, truncate_vars, auth_vars>>
not_proxy_vars == <<early_vars, limiter_vars, scrapers, cache_op>>

rest_vars == <<router_vars, extract_vars, tail_vars>>

vars == <<validate_vars, config_vars, scrape_vars, search_vars, pool_vars,
          rest_vars>>

(***************************************************************************)
(* Addresses.  Each address string stands for its class; the flags are the *)
(* ones Python's ipaddress module reports for it.                          *)
(***************************************************************************)
Addresses ==
    {"8.8.8.8", "10.0.0.1", "127.0.0.1", "169.254.1.1", "224.0.0.1",
     "240.0.0.1", "not-an-ip"}

ip_flags(ip_str) ==
    CASE ip_str = "8.8.8.8"     -> {}
      [] ip_str = "10.0.0.1"    -> {"is_private"}
      [] ip_str = "127.0.0.1"   -> {"is_private", "is_loopback"}
      [] ip_str = "169.254.1.1" -> {"is_private", "is_link_local"}
      [] ip_str = "224.0.0.1"   -> {"is_multicast"}
      [] ip_str = "240.0.0.1"   -> {"is_private", "is_reserved"}
      [] OTHER                  -> {"ValueError"}

\* security.py is_ip_allowed: ValueError -> False, any flag -> False.
is_ip_allowed(ip_str) ==
    IF "ValueError" \in ip_flags(ip_str)
    THEN FALSE
    ELSE IF \/ "is_private" \in ip_flags(ip_str)
            \/ "is_loopback" \in ip_flags(ip_str)
            \/ "is_link_local" \in ip_flags(ip_str)
            \/ "is_multicast" \in ip_flags(ip_str)
            \/ "is_reserved" \in ip_flags(ip_str)
         THEN FALSE
         ELSE TRUE

\* Longest address list getaddrinfo returns in the model.
MaxAddrs == 3

AddrLists == UNION {[1..n -> Addresses] : n \in 1..MaxAddrs}

\* getaddrinfo either raises socket.gaierror or returns a non-empty list.
DnsAnswers == {[gaierror |-> TRUE, addrs |-> <<>>]}
              \cup {[gaierror |-> FALSE, addrs |-> a] : a \in AddrLists}

\* The for loop of validate_url: False at the first address that is not allowed.
RECURSIVE all_addrs_allowed(_, _)
all_addrs_allowed(addrs, i) ==
    IF i > Len(addrs) THEN TRUE
    ELSE IF ~is_ip_allowed(addrs[i]) THEN FALSE
    ELSE all_addrs_allowed(addrs, i + 1)

\* A plausible slip: trust the URL as soon as one resolved address is public.
RECURSIVE any_addr_allowed(_, _)
any_addr_allowed(addrs, i) ==
    IF i > Len(addrs) THEN FALSE
    ELSE IF is_ip_allowed(addrs[i]) THEN TRUE
    ELSE any_addr_allowed(addrs, i + 1)

validate_url_first_public(has_hostname, dns) ==
    IF ~has_hostname THEN FALSE
    ELSE IF dns.gaierror THEN FALSE
    ELSE any_addr_allowed(dns.addrs, 1)

\* security.py validate_url.
validate_url(has_hostname, dns) ==
    IF ~has_hostname THEN FALSE
    ELSE IF dns.gaierror THEN FALSE
    ELSE all_addrs_allowed(dns.addrs, 1)

NotReturned == [returned |-> FALSE, value |-> FALSE]

(***************************************************************************)
(* URLs.  A URL is a name; what the code reads off a URL (its hostname,    *)
(* whether a blocked domain occurs in it) is given by the tables below.    *)
(***************************************************************************)
Urls == {"a", "b", "c", "d", "x", "y", "n"}

\* urlparse(url).hostname, lowercased; "nohost" is a URL without a hostname.
host_of(url) ==
    CASE url = "a" -> "open.org"
      [] url = "b" -> "www.open.org"
      [] url = "c" -> "notopen.org"
      [] url = "d" -> "other.net"
      [] url = "x" -> "en.wikipedia.org"
      [] url = "y" -> "www.reddit.com"
      [] url = "n" -> "news.net"
      [] OTHER     -> ""

has_hostname(url) == host_of(url) # ""

\* host.endswith("." + d) for the hosts and domains of the model.
EndsWithDotDomain ==
    {<<"www.open.org", "open.org">>, <<"en.wikipedia.org", "wikipedia.org">>,
     <<"www.reddit.com", "reddit.com">>}

\* Values of SEARCH_ALLOWED_DOMAINS the model starts from.
AllowLists == {{}, {"open.org", "wikipedia.org"}}

\* web_search.py _is_allowed.
_is_allowed(url) ==
    IF allowed_domains = {} THEN TRUE
    ELSE \E d \in allowed_domains :
            host_of(url) = d \/ <<host_of(url), d>> \in EndsWithDotDomain

\* Two of the entries of self.blocked_domains, and the URLs they occur in.
blocked_domains == {"wikipedia.org", "reddit.com"}

DomainInUrl == {<<"wikipedia.org", "x">>, <<"reddit.com", "y">>}

\* web_search.py _is_blocked_domain: substring test of every blocked domain.
_is_blocked_domain(url) ==
    \E domain \in blocked_domains : <<domain, url>> \in DomainInUrl

\* ---- states in which a part of the system is not in use ----
ValidateIdle ==
    /\ v_url = [has_hostname |-> TRUE]
    /\ v_dns = [gaierror |-> TRUE, addrs |-> <<>>]
    /\ v_result = NotReturned

NoResp == [status |-> 0, location |-> "none", text |-> ""]

ScrapeIdle ==
    /\ s_pc = "idle"
    /\ s_url = "none"
    /\ current_url = "none"
    /\ redirect_count = 0
    /\ resp = NoResp
    /\ s_result = [returned |-> FALSE, text |-> ""]
    /\ _scrape_semaphore = 5
    /\ requests = <<>>
    /\ validations = <<>>
    /\ connected_to = "none"

NoAnswer == [outcome |-> "ok", items |-> <<>>]

\* The completion order of parallel tasks: the fetches of the URLs in late
\* and the targeted queries in late_tgt complete after the others of their
\* fan-out, and news_first tells that the news query completes before the
\* web query.
InOrder == [late |-> {}, late_tgt |-> {}, news_first |-> FALSE]

NoStub == [web |-> NoAnswer, news |-> NoAnswer,
           tgt |-> <<NoAnswer, NoAnswer>>, dead |-> {}, order |-> InOrder]

NoCall == [q_len |-> 0, depth |-> "none", targeted |-> 0]

NoResponse == [kind |-> "none", status |-> 0, results |-> <<>>,
               depth |-> "absent", error |-> FALSE, summary |-> FALSE]

SearchIdle ==
    /\ now = 0
    /\ _timestamps = <<>>
    /\ stub = NoStub
    /\ last_call = NoCall
    /\ response = NoResponse
    /\ scrape_log = <<>>

\* Number of DDGS instances __init__ puts in the pool.
PoolSize == 5

\* Number of _search_ddg / _search_ddg_news calls in the model.
NumCalls == 3

Calls == 1..NumCalls

PoolIdle ==
    /\ _ddgs_pool = [i \in 1..PoolSize |-> i]
    /\ c_pc = [c \in Calls |-> "idle"]
    /\ c_fut = [c \in Calls |-> "none"]
    /\ work_queue = <<>>
    /\ running = {}
    /\ running_other = 0
    /\ loop_ready = <<>>
    /\ executor_shutdown = FALSE

\* Normalized queries (cache keys) of the model.
Keys == {"q1", "latest q2", "q3"}

\* classify_intent calls of the model: one at a time.
IntentCalls == {1}

\* A decision dictionary: needs_search and where it came from.
NoResult == [needs_search |-> FALSE, reason |-> "none"]

NoDecision == [at |-> -1, value |-> NoResult]

\* turn alternates between 0 and 1 with every call that starts; cache0 is
\* the cache as the call found it.
IdleCall == [pc |-> "idle", query |-> "none", result |-> NoResult,
             posted |-> FALSE, turn |-> 0, cache0 |-> <<>>]

RouterIdle ==
    /\ _intent_cache = <<>>
    /\ _max_size = 1000
    /\ intent_calls = [c \in IntentCalls |-> IdleCall]
    /\ decided = [k \in Keys |-> NoDecision]
    /\ used_since = [k \in Keys |-> {}]

\* No page has been parsed.
NoDocument == <<>>
NotExtracted == [done |-> FALSE, removed |-> {}, content |-> -1, text |-> <<>>]

ExtractIdle ==
    /\ document = NoDocument
    /\ extracted = NotExtracted

\* No text has been handed to the truncation.
NotTruncated == [done |-> FALSE, value |-> <<>>]

TruncateIdle ==
    /\ words = <<>>
    /\ max_words = 1000
    /\ final_text = NotTruncated

\* Lines 28-33 and 98 of password.py: the limiter as constructed.  -1 stands
\* for a key that is not in the dictionary.
AuthIps == {"h1", "h2", "proxy"}
NoAttempts == [count |-> 0, first |-> -1]

\* What has been seen of each client so far: the number of calls, the
\* client, password and status of the latest call, and per
\* client the latest status, the 401 answers in a row (run) and the time of
\* the first of them, the 401 answers in all (fails) and the time of the
\* fifth, the end of the block that five 401 answers in a row inside an hour
\* call for, and the 401 answers since that block ran out.
NoHistory ==
    [calls |-> 0, client |-> "none", x_password |-> "none", status |-> 0,
     of |-> [ip \in AuthIps |->
                [last |-> 0, run |-> 0, run_first |-> -1, fails |-> 0,
                 fifth_at |-> -1, blocked_until |-> -1, since_expiry |-> 0]]]

AuthIdle ==
    /\ _rate_limiter = [failed_attempts |-> [ip \in AuthIps |-> NoAttempts],
                        blocked_ips |-> [ip \in AuthIps |-> -1],
                        _access_counter |-> 0]
    /\ auth_log = NoHistory

\* No proxy call has been made.
NoRequest == [endpoint |-> "none", path |-> <<>>, body_len |-> 0,
              upstream |-> "none"]
NoOutcome == [kind |-> "none", status |-> 0, value |-> <<>>, passes |-> 0]

ProxyIdle ==
    /\ p_request = NoRequest
    /\ p_outcome = NoOutcome

\* search() calls of the concurrent model; no call has been made.
LimiterCalls == {1, 2, 3}
NoSearchCall == [pc |-> "idle", t |-> -1]

LimiterIdle ==
    /\ limiter_calls = [c \in LimiterCalls |-> NoSearchCall]
    /\ admitted = <<>>

\* _scrape_url calls of the concurrent model.
NumScrapers == 6
Scrapers == 1..NumScrapers

SemaphoreIdle == scrapers = [s \in Scrapers |-> "idle"]

\* The latest operation on the cache, its key, and the keys in the order of
\* their latest use (a set, or a get that returned the entry), oldest first.
NoCacheOp == [op |-> "none", key |-> "none", lru |-> <<>>]

CacheIdle == cache_op = NoCacheOp

LateIdle == ProxyIdle /\ LimiterIdle /\ SemaphoreIdle /\ CacheIdle

TailIdle == TruncateIdle /\ AuthIdle /\ LateIdle

RestIdle == RouterIdle /\ ExtractIdle /\ TailIdle

ConfigDefault ==
    /\ allowed_domains = {}
    /\ _rate_limit = 30

\* ---- specification for validate_url as a function of its inputs ----
InitValidate ==
    /\ v_url \in [has_hostname : BOOLEAN]
    /\ v_dns \in DnsAnswers
    /\ v_result = NotReturned
    /\ ConfigDefault
    /\ ScrapeIdle
    /\ SearchIdle
    /\ PoolIdle
    /\ RestIdle

CallValidateUrl ==
    /\ ~v_result.returned
    /\ v_result' = [returned |-> TRUE,
                    value |-> validate_url(v_url.has_hostname, v_dns)]
    /\ UNCHANGED <<v_url, v_dns, config_vars, scrape_vars, search_vars,
                   pool_vars, rest_vars>>

NextValidate == CallValidateUrl

SpecValidate == InitValidate /\ [][NextValidate]_vars

\* Addresses of the classes validate_url must refuse.
InternalAddresses ==
    {"10.0.0.1", "127.0.0.1", "169.254.1.1", "224.0.0.1", "240.0.0.1"}

HasInternalAddress(dns) ==
    \E i \in 1..Len(dns.addrs) : dns.addrs[i] \in InternalAddresses

\* C2: validate_url returns False whenever the resolved address set holds a
\* private, loopback, link-local, multicast or reserved address (at any
\* position, whatever the other addresses), when the hostname is missing and
\* when DNS resolution fails.
ValidateFailsClosed ==
    (v_result.returned /\ (\/ ~v_url.has_hostname
                           \/ v_dns.gaierror
                           \/ HasInternalAddress(v_dns)))
        => v_result.value = FALSE

\* C2 witness: a public address first, an internal one later, and the call
\* has answered False.
ValidateMixedWitness ==
    /\ v_result.returned
    /\ v_result.value = FALSE
    /\ v_url.has_hostname
    /\ ~v_dns.gaierror
    /\ Len(v_dns.addrs) >= 2
    /\ v_dns.addrs[1] = "8.8.8.8"
    /\ v_dns.addrs[Len(v_dns.addrs)] = "127.0.0.1"

(***************************************************************************)
(* _scrape_url: the fetch half (allow-list test, semaphore, manual         *)
(* redirect loop).  One coroutine, one step per await.                     *)
(***************************************************************************)
max_redirects == 5

ScrapeUrls == {"a", "c", "x"}

\* Targets a Location header can name, after httpx.URL.join.
RedirectTargets == {"a", "d", "nohost"}

\* DNS answers a hop of the fetch can see.
HopDnsAnswers ==
    {d \in DnsAnswers :
        /\ Len(d.addrs) <= 2
        /\ \A i \in 1..Len(d.addrs) : d.addrs[i] \in {"8.8.8.8", "127.0.0.1"}}

\* What client.get can do: a response, or an exception (timeout, connect
\* error) marked by status -1.
HttpOutcomes ==
    {[status |-> 200, location |-> "none", text |-> "page"],
     [status |-> 200, location |-> "none", text |-> ""],
     [status |-> 404, location |-> "none", text |-> "page"],
     [status |-> 302, location |-> "none", text |-> ""],
     [status |-> -1, location |-> "none", text |-> ""]}
    \cup {[status |-> 302, location |-> t, text |-> ""] : t \in RedirectTargets}

\* A plausible slip: log the unsafe hop but go on to the request.
after_validation_log_only(is_safe) == "get"

\* Lines 605-609: an unsafe hop ends the fetch.
after_validation(is_safe) == IF ~is_safe THEN "done" ELSE "get"

\* A plausible slip: the loop goes on while the count has not passed the cap.
loop_continues_at_cap(count) == count <= max_redirects

\* Line 598: the condition of the while loop.
loop_continues(count) == count < max_redirects

\* Lines 630-646 and 832: the string returned once the loop is left with resp.
text_after_loop(r, count) ==
    IF count >= max_redirects /\ r.status >= 300 THEN ""
    ELSE IF r.status # 200 THEN ""
    ELSE IF r.text = "" THEN ""
    ELSE current_url

\* Lines 585-596: allow-list test, then the semaphore is taken.
ScrapeEnter ==
    /\ s_pc = "start"
    /\ IF ~_is_allowed(s_url)
       THEN /\ s_pc' = "done"
            /\ s_result' = [returned |-> TRUE, text |-> ""]
            /\ UNCHANGED <<_scrape_semaphore, current_url>>
       ELSE /\ _scrape_semaphore > 0
            /\ _scrape_semaphore' = _scrape_semaphore - 1
            /\ current_url' = s_url
            /\ s_pc' = "validate"
            /\ UNCHANGED s_result
    /\ UNCHANGED <<s_url, redirect_count, resp, requests, validations,
                   connected_to>>
    /\ UNCHANGED <<validate_vars, config_vars, search_vars, pool_vars,
                   rest_vars>>

\* Lines 598-609: validate_url(current_url) in the executor.
ScrapeValidate ==
    /\ s_pc = "validate"
    /\ \E dns \in HopDnsAnswers :
        LET is_safe == validate_url(has_hostname(current_url), dns) IN
        /\ validations' = Append(validations,
               [url |-> current_url, dns |-> dns, is_safe |-> is_safe])
        /\ s_pc' = after_validation(is_safe)
        /\ IF after_validation(is_safe) = "done"
           THEN /\ s_result' = [returned |-> TRUE, text |-> ""]
                /\ _scrape_semaphore' = _scrape_semaphore + 1
           ELSE UNCHANGED <<s_result, _scrape_semaphore>>
    /\ UNCHANGED <<s_url, current_url, redirect_count, resp, requests,
                   connected_to>>
    /\ UNCHANGED <<validate_vars, config_vars, search_vars, pool_vars,
                   rest_vars>>

\* client.get is given the URL, not an address: httpx resolves the hostname
\* again, with the DNS answer of that moment, and connects to one of its
\* addresses ("none": no address, the request fails).
connect_addresses(dns) ==
    IF dns.gaierror \/ dns.addrs = <<>> THEN {"none"}
    ELSE {dns.addrs[i] : i \in 1..Len(dns.addrs)}

\* Lines 611-646: client.get(current_url), then redirect, break or return.
ScrapeGet ==
    /\ s_pc = "get"
    /\ requests' = Append(requests, current_url)
    /\ \E dns \in HopDnsAnswers, r \in HttpOutcomes :
        /\ connected_to' \in connect_addresses(dns)
        /\ connected_to' = "none" => r.status = -1
        /\ IF r.status = -1
           THEN \* exception: the except clauses return ""
                /\ s_pc' = "done"
                /\ s_result' = [returned |-> TRUE, text |-> ""]
                /\ _scrape_semaphore' = _scrape_semaphore + 1
                /\ UNCHANGED <<resp, current_url, redirect_count>>
           ELSE IF r.status >= 300 /\ r.status < 400 /\ r.location # "none"
                   /\ loop_continues(redirect_count + 1)
           THEN \* follow the redirect: next iteration of the while loop
                /\ resp' = r
                /\ current_url' = r.location
                /\ redirect_count' = redirect_count + 1
                /\ s_pc' = "validate"
                /\ UNCHANGED <<s_result, _scrape_semaphore>>
           ELSE \* loop left: by break, or by the while condition
                LET redirected == r.status >= 300 /\ r.status < 400
                                  /\ r.location # "none"
                    count == IF redirected THEN redirect_count + 1
                             ELSE redirect_count
                IN
                /\ resp' = r
                /\ redirect_count' = count
                /\ current_url' = IF redirected THEN r.location ELSE current_url
                /\ s_pc' = "done"
                /\ s_result' = [returned |-> TRUE,
                                text |-> text_after_loop(r, count)]
                /\ _scrape_semaphore' = _scrape_semaphore + 1
    /\ UNCHANGED <<s_url, validations>>
    /\ UNCHANGED <<validate_vars, config_vars, search_vars, pool_vars,
                   rest_vars>>

InitScrape ==
    /\ ValidateIdle
    /\ SearchIdle
    /\ PoolIdle
    /\ RestIdle
    /\ allowed_domains \in AllowLists
    /\ _rate_limit = 30
    /\ s_pc = "start"
    /\ s_url \in ScrapeUrls
    /\ current_url = "none"
    /\ redirect_count = 0
    /\ resp = NoResp
    /\ s_result = [returned |-> FALSE, text |-> ""]
    /\ _scrape_semaphore = 5
    /\ requests = <<>>
    /\ validations = <<>>
    /\ connected_to = "none"

NextScrape == ScrapeEnter \/ ScrapeValidate \/ ScrapeGet

SpecScrape == InitScrape /\ [][NextScrape]_vars

AllPublic(dns) ==
    /\ ~dns.gaierror
    /\ \A i \in 1..Len(dns.addrs) : dns.addrs[i] \notin InternalAddresses
    /\ \A i \in 1..Len(dns.addrs) : dns.addrs[i] # "not-an-ip"

\* C1: every URL handed to client.get (the initial URL and every redirect
\* target) was validated as safe just before, for that exact URL; the first
\* hop that validates as unsafe is the last event of the fetch: no request
\* follows it and the fetch returns the empty string.
RequestsOnlyAfterValidation ==
    /\ Len(requests) <= Len(validations)
    /\ \A i \in 1..Len(requests) :
          /\ validations[i].url = requests[i]
          /\ validations[i].is_safe
          /\ AllPublic(validations[i].dns)
          /\ has_hostname(requests[i])
    /\ \A i \in 1..Len(validations) :
          ~validations[i].is_safe =>
              /\ i = Len(validations)
              /\ Len(requests) = i - 1
              /\ s_pc = "done"
              /\ s_result = [returned |-> TRUE, text |-> ""]

\* C1 witness: two hops were requested, the third validated as unsafe and
\* the fetch returned the empty string.
UnsafeThirdHopWitness ==
    /\ Len(validations) = 3
    /\ ~validations[3].is_safe
    /\ Len(requests) = 2
    /\ s_result = [returned |-> TRUE, text |-> ""]

(***************************************************************************)
(* The search orchestrator.  The provider and the web are a stub held in   *)
(* the state: what ddgs.text / ddgs.news answer to the broad query and to  *)
(* each targeted query, and the URLs whose fetch yields no text.           *)
(***************************************************************************)
Min(a, b) == IF a < b THEN a ELSE b

\* seq[:n]
Take(seq, n) == SubSeq(seq, 1, Min(n, Len(seq)))

Range(seq) == {seq[i] : i \in 1..Len(seq)}

\* Lines 185-210: the provider call as its awaiter sees it.  A timeout of
\* wait_for gives [], an exception of ddgs.text propagates, otherwise the
\* provider's list, at most max_results long.
_search_ddg(answer, max_results) ==
    IF answer.outcome = "error" THEN [raised |-> TRUE, items |-> <<>>]
    ELSE IF answer.outcome = "timeout" THEN [raised |-> FALSE, items |-> <<>>]
    ELSE [raised |-> FALSE, items |-> Take(answer.items, max_results)]

\* Lines 212-236: the same for ddgs.news.
_search_ddg_news(answer, max_results) ==
    IF answer.outcome = "error" THEN [raised |-> TRUE, items |-> <<>>]
    ELSE IF answer.outcome = "timeout" THEN [raised |-> FALSE, items |-> <<>>]
    ELSE [raised |-> FALSE, items |-> Take(answer.items, max_results)]

\* Lines 253-263.
_filter_results(results) ==
    SelectSeq(results, LAMBDA u : u # "" /\ _is_allowed(u))

\* _scrape_url as its caller sees it: "" when the URL is not allowed or the
\* fetch yields nothing, otherwise the text of the page (named by its URL).
scrape_text(st, url) ==
    IF ~_is_allowed(url) THEN ""
    ELSE IF url \in st.dead THEN ""
    ELSE url

\* The order in which n parallel tasks complete when those in late finish
\* after the others.
completion_order(n, late) ==
    LET early == SelectSeq([i \in 1..n |-> i], LAMBDA i : i \notin late)
        last == SelectSeq([i \in 1..n |-> i], LAMBDA i : i \in late)
    IN early \o last

\* A plausible slip: the outcomes are collected as the tasks complete.
gather_as_completed(outcomes, order) ==
    [k \in 1..Len(order) |-> outcomes[order[k]]]

\* asyncio.gather: each outcome is stored at the index of its task when the
\* task completes; the list is returned when all are done.
gather(outcomes, order) ==
    LET slot_of(i) == CHOOSE k \in 1..Len(order) : order[k] = i
    IN [i \in 1..Len(outcomes) |-> outcomes[order[slot_of(i)]]]

\* asyncio.gather over the scrape tasks: one outcome per URL.
scrape_all(st, urls) ==
    gather([i \in 1..Len(urls) |->
               [url |-> urls[i], text |-> scrape_text(st, urls[i])]],
           completion_order(Len(urls),
               {i \in 1..Len(urls) : urls[i] \in st.order.late}))

\* The dictionary built for a scraped result.
scraped_entry(url, phase, text) ==
    [url |-> url, phase |-> phase,
     content |-> IF text # "" THEN "scraped" ELSE "snippet",
     is_full_content |-> text # ""]

\* The dictionary built for a result that is not scraped.
snippet_entry(url, phase) ==
    [url |-> url, phase |-> phase, content |-> "absent",
     is_full_content |-> FALSE]

\* targeted is the number of targeted provider queries issued by the call.
SearchRaised(scraped, targeted) ==
    [raised |-> TRUE, results |-> <<>>, depth |-> "absent",
     summary |-> FALSE, scraped |-> scraped, targeted |-> targeted]

NoResultsFound ==
    [raised |-> FALSE, results |-> <<>>, depth |-> "absent",
     summary |-> TRUE, scraped |-> <<>>, targeted |-> 0]

\* Lines 272-309: the numbers of the normal strategy, in the shape of the
\* configurations of the multi-phase strategies; it issues no targeted query
\* and scrapes neither news nor targeted results.
normal_config ==
    [broad_results |-> 5, news_results |-> 2, targeted_queries |-> 0,
     scrape_limit_broad |-> 2, scrape_limit_news |-> 0,
     scrape_limit_targeted |-> 0, max_words |-> 1000]

\* A plausible slip: scrape every unblocked result of the first four.
normal_scrapeable_top4(results) ==
    SelectSeq(Take(results, 4), LAMBDA u : ~_is_blocked_domain(u))

\* Lines 303-305.
normal_scrapeable(results) ==
    Take(SelectSeq(Take(results, 4), LAMBDA u : ~_is_blocked_domain(u)),
         normal_config.scrape_limit_broad)

\* Lines 326-340: up to two more results as snippets.
RECURSIVE add_snippets(_, _, _, _, _)
add_snippets(results, i, existing_urls, snippet_count, acc) ==
    IF i > Len(results) THEN [entries |-> acc, existing_urls |-> existing_urls]
    ELSE IF results[i] \notin existing_urls /\ snippet_count < 2
    THEN add_snippets(results, i + 1, existing_urls \cup {results[i]},
                      snippet_count + 1,
                      Append(acc, snippet_entry(results[i], "snippet")))
    ELSE add_snippets(results, i + 1, existing_urls, snippet_count, acc)

\* Lines 272-356.
_normal_search(st) ==
    LET both == gather(<<_search_ddg(st.web, normal_config.broad_results),
                         _search_ddg_news(st.news, normal_config.news_results)>>,
                       completion_order(2, IF st.order.news_first THEN {1}
                                           ELSE {}))
        web == both[1]
        news == both[2]
    IN
    IF web.raised \/ news.raised THEN SearchRaised(<<>>, 0)
    ELSE
    LET results == _filter_results(web.items)
        news_results == _filter_results(news.items)
    IN
    IF results = <<>> /\ news_results = <<>> THEN NoResultsFound
    ELSE
    LET scrapeable == normal_scrapeable(results)
        contents == scrape_all(st, scrapeable)
        primary == [i \in 1..Len(scrapeable) |->
                      scraped_entry(scrapeable[i], "primary", contents[i].text)]
        snip == add_snippets(results, 1, Range(scrapeable), 0, primary)
        news1 == Take(news_results, 1)
        processed_results ==
            IF Len(news1) = 1 /\ news1[1] \notin snip.existing_urls
            THEN Append(snip.entries, snippet_entry(news1[1], "news"))
            ELSE snip.entries
    IN [raised |-> FALSE, results |-> processed_results, depth |-> "normal",
        summary |-> FALSE, scraped |-> contents,
        targeted |-> normal_config.targeted_queries]

\* Lines 366-382; targeted_queries is the number of suffixes.
deep_config ==
    [broad_results |-> 8, news_results |-> 4, targeted_queries |-> 3,
     scrape_limit_broad |-> 5, scrape_limit_news |-> 3,
     scrape_limit_targeted |-> 3, max_words |-> 2000]

\* A plausible slip: the deeper strategy given the three suffixes of deep.
deeper_config_three_suffixes ==
    [broad_results |-> 12, news_results |-> 6, targeted_queries |-> 3,
     scrape_limit_broad |-> 8, scrape_limit_news |-> 5,
     scrape_limit_targeted |-> 6, max_words |-> 3500]

\* Lines 392-411.
deeper_config ==
    [broad_results |-> 12, news_results |-> 6, targeted_queries |-> 6,
     scrape_limit_broad |-> 8, scrape_limit_news |-> 5,
     scrape_limit_targeted |-> 6, max_words |-> 3500]

\* The stub's answer to the j-th targeted query.
targeted_answer(st, j) ==
    IF j <= Len(st.tgt) THEN st.tgt[j] ELSE NoAnswer

\* A plausible slip: the blocked-domain test left out of the selection.
scrapeable_broad_unfiltered(broad_results, config) ==
    Take(SelectSeq(broad_results, LAMBDA u : _is_allowed(u)),
         config.scrape_limit_broad)

\* Lines 445-449.
scrapeable_broad(broad_results, config) ==
    Take(SelectSeq(broad_results,
                   LAMBDA u : ~_is_blocked_domain(u) /\ _is_allowed(u)),
         config.scrape_limit_broad)

\* Lines 474-486: blocked broad results added as snippets.
RECURSIVE add_blocked(_, _, _, _)
add_blocked(blocked, i, existing_urls, acc) ==
    IF i > Len(blocked) THEN [entries |-> acc, existing_urls |-> existing_urls]
    ELSE IF blocked[i] \notin existing_urls
    THEN add_blocked(blocked, i + 1, existing_urls \cup {blocked[i]},
                     Append(acc, snippet_entry(blocked[i], "broad")))
    ELSE add_blocked(blocked, i + 1, existing_urls, acc)

\* A plausible slip: the content index advances for blocked news too.
news_content_index_every(u, content_idx, i) == i - 1

\* Lines 504-512: content_idx counts the unblocked news handled so far.
news_content_index(u, content_idx, i) == content_idx

\* Lines 504-524: one entry per unique news result; i is the position in
\* unique_news, content_idx the (0-based) position in news_contents.
RECURSIVE news_entries(_, _, _, _, _)
news_entries(unique_news, i, content_idx, news_contents, acc) ==
    IF i > Len(unique_news) THEN acc
    ELSE
    LET u == unique_news[i]
        idx == news_content_index(u, content_idx, i)
        taken == ~_is_blocked_domain(u) /\ idx < Len(news_contents)
        content == IF taken THEN news_contents[idx + 1].text ELSE ""
    IN news_entries(unique_news, i + 1,
                    IF taken THEN content_idx + 1 ELSE content_idx,
                    news_contents,
                    Append(acc, scraped_entry(u, "news", content)))

RECURSIVE flatten(_)
flatten(lists) ==
    IF lists = <<>> THEN <<>> ELSE Head(lists) \o flatten(Tail(lists))

\* Lines 532-536: the targeted provider calls run in parallel; their lists
\* are flattened.
targeted_flat(st, j, n) ==
    flatten(gather([i \in j..n |-> _search_ddg(targeted_answer(st, i), 3).items],
                   completion_order(n, st.order.late_tgt)))

\* Lines 413-568.
_multi_phase_search(st, config, depth_name) ==
    LET both == gather(<<_search_ddg(st.web, config.broad_results),
                         _search_ddg_news(st.news, config.news_results)>>,
                       completion_order(2, IF st.order.news_first THEN {1}
                                           ELSE {}))
        broad == both[1]
        news == both[2]
    IN
    IF broad.raised \/ news.raised THEN SearchRaised(<<>>, 0)
    ELSE
    LET broad_results == _filter_results(broad.items)
        news_results == _filter_results(news.items)
    IN
    IF broad_results = <<>> /\ news_results = <<>> THEN NoResultsFound
    ELSE
    LET scrapeable == scrapeable_broad(broad_results, config)
        blocked_broad == SelectSeq(broad_results,
                                   LAMBDA u : _is_blocked_domain(u))
        broad_contents == scrape_all(st, scrapeable)
        broad_entries == [i \in 1..Len(scrapeable) |->
            scraped_entry(scrapeable[i], "broad", broad_contents[i].text)]
        withBlocked == add_blocked(Take(blocked_broad, 2), 1,
                                   Range(scrapeable), broad_entries)
        unique_news == Take(SelectSeq(news_results,
               LAMBDA u : u # "" /\ u \notin withBlocked.existing_urls
                          /\ _is_allowed(u)),
               config.scrape_limit_news)
        news_contents == scrape_all(st, SelectSeq(unique_news,
               LAMBDA u : ~_is_blocked_domain(u)))
        withNews == news_entries(unique_news, 1, 0, news_contents,
                                 withBlocked.entries)
        existing_urls == withBlocked.existing_urls \cup Range(unique_news)
        anyTargetedRaised == \E j \in 1..config.targeted_queries :
               _search_ddg(targeted_answer(st, j), 3).raised
    IN
    IF anyTargetedRaised
    THEN SearchRaised(broad_contents \o news_contents,
                      config.targeted_queries)
    ELSE
    LET all_targeted == targeted_flat(st, 1, config.targeted_queries)
        unique_targeted == Take(SelectSeq(all_targeted,
               LAMBDA u : u \notin existing_urls /\ _is_allowed(u)),
               config.scrape_limit_targeted)
        scrapeable_targeted == SelectSeq(unique_targeted,
               LAMBDA u : ~_is_blocked_domain(u))
        t_contents == scrape_all(st, scrapeable_targeted)
        t_entries == [i \in 1..Len(scrapeable_targeted) |->
            scraped_entry(scrapeable_targeted[i], "targeted",
                          t_contents[i].text)]
    IN [raised |-> FALSE, results |-> withNews \o t_entries,
        depth |-> depth_name, summary |-> FALSE,
        scraped |-> broad_contents \o news_contents \o t_contents,
        targeted |-> config.targeted_queries]

\* Lines 384-411.
_deeper_search(st) == _multi_phase_search(st, deeper_config, "deeper")

\* Lines 358-382.
_deep_search(st) == _multi_phase_search(st, deep_config, "deep")

\* ---- the rate limiter ----
\* Lines 244-245: drop the timestamps older than the window, oldest first.
RECURSIVE prune(_, _)
prune(timestamps, window_start) ==
    IF timestamps # <<>> /\ timestamps[1] < window_start
    THEN prune(Tail(timestamps), window_start)
    ELSE timestamps

\* A plausible slip: an off-by-one in the comparison with the ceiling.
rate_limit_exceeded(timestamps) == Len(timestamps) > _rate_limit

\* Line 246.
rate_limit_reached(timestamps) == Len(timestamps) >= _rate_limit

Raise(status) ==
    [kind |-> "raise", status |-> status, results |-> <<>>,
     depth |-> "absent", error |-> FALSE, summary |-> FALSE]

\* A plausible slip: no except clause, the failure reaches the caller.
search_outcome_propagating(result) ==
    IF result.raised THEN Raise(500)
    ELSE [kind |-> "return", status |-> 0, results |-> result.results,
          depth |-> result.depth, error |-> FALSE,
          summary |-> result.summary]

\* Lines 135-176: the try block; an exception becomes an error dictionary.
search_outcome(result) ==
    IF result.raised
    THEN [kind |-> "return", status |-> 0, results |-> <<>>,
          depth |-> "absent", error |-> TRUE, summary |-> FALSE]
    ELSE [kind |-> "return", status |-> 0, results |-> result.results,
          depth |-> result.depth, error |-> FALSE,
          summary |-> result.summary]

\* Lines 136-147: the strategy chosen by depth.
search_by_depth(st, depth) ==
    IF depth = "deeper" THEN _deeper_search(st)
    ELSE IF depth = "deep" THEN _deep_search(st)
    ELSE _normal_search(st)

Depths == {"normal", "deep", "deeper"}

\* len(query) of the calls of the model.
QueryLengths == {500, 501}

\* Lines 111-176 with _enforce_rate_limit (lines 238-251).
search(q_len, depth) ==
    /\ IF q_len > 500
       THEN /\ response' = Raise(413)
            /\ scrape_log' = <<>>
            /\ last_call' = [q_len |-> q_len, depth |-> depth,
                             targeted |-> 0]
            /\ UNCHANGED _timestamps
       ELSE IF _rate_limit # 0
               /\ rate_limit_reached(prune(_timestamps, now - 60))
       THEN /\ response' = Raise(429)
            /\ scrape_log' = <<>>
            /\ last_call' = [q_len |-> q_len, depth |-> depth,
                             targeted |-> 0]
            /\ _timestamps' = prune(_timestamps, now - 60)
       ELSE LET result == search_by_depth(stub, depth) IN
            /\ _timestamps' = IF _rate_limit = 0 THEN _timestamps
                              ELSE Append(prune(_timestamps, now - 60), now)
            /\ response' = search_outcome(result)
            /\ scrape_log' = result.scraped
            /\ last_call' = [q_len |-> q_len, depth |-> depth,
                             targeted |-> result.targeted]
    /\ UNCHANGED <<now, stub>>
    /\ UNCHANGED <<validate_vars, config_vars, scrape_vars, pool_vars,
                   rest_vars>>

\* ---- provider and web stubs ----
Ok(items) == [outcome |-> "ok", items |-> items]
Timeout == [outcome |-> "timeout", items |-> <<>>]
Error == [outcome |-> "error", items |-> <<>>]

\* Longest web result list of a stub.
MaxWeb == 4
\* Number of targeted queries whose answer a stub varies.
MaxVariedTargeted == 2

WebUrls == {"a", "b", "c", "d", "x", "y"}

FirstIndex(seq, u) ==
    CHOOSE i \in 1..Len(seq) : seq[i] = u /\ \A j \in 1..(i - 1) : seq[j] # u

\* URLs of one kind are interchangeable as provider results: a list names
\* them in the order a, b, c, d (unblocked) and x, y (blocked).
InNamingOrder(seq) ==
    \A pair \in {<<"a", "b">>, <<"b", "c">>, <<"c", "d">>, <<"x", "y">>} :
        pair[2] \in Range(seq) =>
            /\ pair[1] \in Range(seq)
            /\ FirstIndex(seq, pair[1]) < FirstIndex(seq, pair[2])

WebLists(n) ==
    {seq \in UNION {[1..k -> WebUrls] : k \in 0..n} : InNamingOrder(seq)}

WebAnswers(n) == {Ok(seq) : seq \in WebLists(n)} \cup {Timeout, Error}

NewsAnswers ==
    {Ok(<<>>), Ok(<<"n">>), Ok(<<"a">>), Ok(<<"n", "a">>), Ok(<<"n", "n">>),
     Ok(<<"x", "n">>), Timeout, Error}

TgtAnswers == {Ok(<<>>), Ok(<<"d">>), Ok(<<"d", "y">>), Timeout, Error}

DeadSets == {{}, {"a"}, Urls}

\* Stubs that vary the web and news answers, and stubs that vary the answers
\* to the targeted queries.
SearchStubs ==
    [web : WebAnswers(MaxWeb), news : NewsAnswers, tgt : {<<>>},
     dead : DeadSets, order : {InOrder}]
    \cup
    [web : {Ok(<<>>), Ok(<<"a">>), Ok(<<"a", "x">>), Timeout, Error},
     news : {Ok(<<>>), Ok(<<"n">>), Error},
     tgt : [1..MaxVariedTargeted -> TgtAnswers], dead : DeadSets,
     order : {InOrder}]

\* ---- specification of search() over the stubs, rate limiter off ----
InitSearch ==
    /\ ValidateIdle
    /\ ScrapeIdle
    /\ PoolIdle
    /\ RestIdle
    /\ allowed_domains \in AllowLists
    /\ _rate_limit = 0
    /\ now = 0
    /\ _timestamps = <<>>
    /\ stub \in SearchStubs
    /\ last_call = NoCall
    /\ response = NoResponse
    /\ scrape_log = <<>>

NextSearch == \E q_len \in QueryLengths, depth \in Depths : search(q_len, depth)

SpecSearch == InitSearch /\ [][NextSearch]_vars

\* ---- specification of search() under the rate limiter, time passing ----
\* Latest time of the model and the steps by which time advances.
MaxClock == 125
TickSteps == {30, 31}

\* Values of SEARCH_RATE_LIMIT_PER_MIN the model starts from.
RateLimits == {0, 1, 2}

RateStubs ==
    {[web |-> Ok(<<"a", "x">>), news |-> Ok(<<"n">>),
      tgt |-> <<Ok(<<"d">>)>>, dead |-> {}, order |-> InOrder],
     [web |-> Ok(<<"a", "b">>), news |-> Timeout,
      tgt |-> <<Error>>, dead |-> {"a"}, order |-> InOrder],
     [web |-> Error, news |-> Ok(<<"n">>), tgt |-> <<>>, dead |-> {},
      order |-> InOrder]}

Tick ==
    /\ \E d \in TickSteps : now + d <= MaxClock /\ now' = now + d
    /\ UNCHANGED <<_timestamps, stub, last_call, response, scrape_log>>
    /\ UNCHANGED <<validate_vars, config_vars, scrape_vars, pool_vars,
                   rest_vars>>

InitRate ==
    /\ ValidateIdle
    /\ ScrapeIdle
    /\ PoolIdle
    /\ RestIdle
    /\ allowed_domains = {}
    /\ _rate_limit \in RateLimits
    /\ now = 0
    /\ _timestamps = <<>>
    /\ stub \in RateStubs
    /\ last_call = NoCall
    /\ response = NoResponse
    /\ scrape_log = <<>>

NextRate ==
    \/ Tick
    \/ \E q_len \in QueryLengths, depth \in Depths : search(q_len, depth)

SpecRate == InitRate /\ [][NextRate]_vars

(***************************************************************************)
(* Properties of the rate limiter and of search().                         *)
(***************************************************************************)
\* Number of recorded calls inside the trailing 60 seconds at time t.
InsideWindow(timestamps, t) ==
    Cardinality({i \in 1..Len(timestamps) : timestamps[i] >= t - 60})

\* What a search() call must do to the window, given the window before it.
AdmissionRule ==
    IF InsideWindow(_timestamps, now) >= _rate_limit
    THEN /\ response'.kind = "raise"
         /\ response'.status = 429
         /\ InsideWindow(_timestamps', now) = InsideWindow(_timestamps, now)
    ELSE /\ response'.kind = "return"
         /\ InsideWindow(_timestamps', now) = InsideWindow(_timestamps, now) + 1
         /\ _timestamps'[Len(_timestamps')] = now

\* C3 as stated: with a ceiling N > 0, every search() call made while N
\* admitted calls lie inside the trailing 60 seconds is rejected with 429 and
\* leaves the window as it is, and every call made while fewer than N lie
\* inside it is admitted.
RateLimitEveryCall ==
    [][(now' = now /\ _rate_limit > 0) => AdmissionRule]_vars

\* C3 amended: the same for the calls whose query has at most 500
\* characters (a longer query is refused with 413 before the limiter runs).
RateLimitAdmission ==
    [][(now' = now /\ _rate_limit > 0 /\ last_call'.q_len <= 500)
          => AdmissionRule]_vars

\* C3 witness: ceiling 2, two admitted calls inside the window, the older one
\* exactly 60 seconds old, and the call was rejected with 429.
RateLimitedWitness ==
    /\ _rate_limit = 2
    /\ Len(_timestamps) = 2
    /\ now - _timestamps[1] = 60
    /\ last_call.q_len <= 500
    /\ response.kind = "raise"
    /\ response.status = 429

\* C7: search() raises only for a query of more than 500 characters (413)
\* and for a rate-limit rejection (429); a call that is neither returns a
\* dictionary with a results list, whatever fails inside it.
SearchRaisesOnlyTwoWays ==
    [][now' = now =>
        LET limited == /\ _rate_limit > 0
                       /\ InsideWindow(_timestamps, now) >= _rate_limit
        IN
        /\ response'.kind = "raise" =>
              \/ response'.status = 413 /\ last_call'.q_len > 500
              \/ response'.status = 429 /\ last_call'.q_len <= 500 /\ limited
        /\ (last_call'.q_len <= 500 /\ ~limited) =>
              /\ response'.kind = "return"
              /\ response'.results \in Seq([url : Urls, phase : STRING,
                                            content : STRING,
                                            is_full_content : BOOLEAN])]_vars

\* C7 witness: the provider raised inside an admitted call, and the call
\* returned an error dictionary with an empty results list.
AbsorbedFailureWitness ==
    /\ stub.web.outcome = "error"
    /\ last_call.q_len <= 500
    /\ response.kind = "return"
    /\ response.error
    /\ response.results = <<>>

Answered == response.kind = "return" /\ last_call.q_len <= 500

ResultUrls == {response.results[i].url : i \in 1..Len(response.results)}

\* C4: the results list returned by search() contains no URL twice.
NoDuplicateUrls ==
    Answered =>
        \A i, j \in 1..Len(response.results) :
            i # j => response.results[i].url # response.results[j].url

\* The stub in which every failed provider call gave an empty list instead.
Degrade(answer) == IF answer.outcome = "ok" THEN answer ELSE NoAnswer

Degraded(st) ==
    [web |-> Degrade(st.web), news |-> Degrade(st.news),
     tgt |-> [j \in 1..Len(st.tgt) |-> Degrade(st.tgt[j])],
     dead |-> st.dead, order |-> st.order]

\* C6: a provider sub-call that fails, by timeout or by exception, counts as
\* an empty list for that sub-call only: the search returns the results it
\* returns when that sub-call answers with an empty list.
ProviderFailureIsLocal ==
    Answered =>
        response.results =
            search_by_depth(Degraded(stub), last_call.depth).results

\* URLs of unblocked and blocked domains, as the tables above name them.
BlockedUrls == {"x", "y"}

BlockedBroadResults ==
    IF stub.web.outcome # "ok" THEN {}
    ELSE {u \in Range(stub.web.items) : u \in BlockedUrls /\ _is_allowed(u)}

ScrapedUrls == {scrape_log[i].url : i \in 1..Len(scrape_log)}

\* C8: in a multi-phase search that ran through its phases no blocked broad
\* result is scraped, and every one of them is in the results, snippet-only
\* with phase "broad".
BlockedBroadAllSnippets ==
    (Answered /\ ~response.error /\ last_call.depth \in {"deep", "deeper"}) =>
        \A u \in BlockedBroadResults :
            /\ u \notin ScrapedUrls
            /\ \E i \in 1..Len(response.results) :
                  /\ response.results[i].url = u
                  /\ response.results[i].phase = "broad"
                  /\ ~response.results[i].is_full_content

\* The stub in which every fetch yields text.
AllFetchable(st) ==
    [web |-> st.web, news |-> st.news, tgt |-> st.tgt, dead |-> {},
     order |-> st.order]

\* C9: an entry has is_full_content exactly when its URL was scraped and the
\* scrape returned text; a fetch that fails leaves the entry in place with
\* is_full_content false and the provider snippet as content, and the list
\* is otherwise the one returned when every fetch succeeds.
FullContentIffScraped ==
    Answered =>
        LET results == response.results
            ideal == search_by_depth(AllFetchable(stub), last_call.depth).results
        IN
        /\ \A i \in 1..Len(results) :
              results[i].is_full_content <=>
                  \E k \in 1..Len(scrape_log) :
                      /\ scrape_log[k].url = results[i].url
                      /\ scrape_log[k].text # ""
        /\ \A k \in 1..Len(scrape_log) :
              (scrape_log[k].text = "" /\ ~response.error) =>
                  \E i \in 1..Len(results) :
                      /\ results[i].url = scrape_log[k].url
                      /\ ~results[i].is_full_content
                      /\ results[i].content = "snippet"
        /\ Len(results) = Len(ideal)
        /\ \A i \in 1..Len(results) :
              /\ results[i].url = ideal[i].url
              /\ results[i].phase = ideal[i].phase
              /\ (results[i].url \notin stub.dead) => results[i] = ideal[i]

\* C9 witness: a deep search in which the fetch of "a" failed and another
\* fetch succeeded; both entries are in the results.
FailedFetchWitness ==
    /\ Answered
    /\ last_call.depth = "deep"
    /\ \E k \in 1..Len(scrape_log) :
          scrape_log[k].url = "a" /\ scrape_log[k].text = ""
    /\ \E i, j \in 1..Len(response.results) :
          /\ response.results[i].url = "a"
          /\ ~response.results[i].is_full_content
          /\ response.results[j].is_full_content

\* The case of C10: a normal search, four distinct scrapeable web results,
\* two news results, every fetch succeeding.
FourWebTwoNews ==
    /\ Answered
    /\ last_call.depth = "normal"
    /\ allowed_domains = {}
    /\ stub.web.outcome = "ok"
    /\ Len(stub.web.items) = 4
    /\ Cardinality(Range(stub.web.items)) = 4
    /\ Range(stub.web.items) \cap BlockedUrls = {}
    /\ stub.news.outcome = "ok"
    /\ Len(stub.news.items) = 2
    /\ stub.dead = {}

PrimaryFull ==
    {i \in 1..Len(response.results) :
        /\ response.results[i].phase = "primary"
        /\ response.results[i].is_full_content}

RestOfNormalResponse ==
    /\ \A i \in 1..Len(response.results) :
          i \notin PrimaryFull => ~response.results[i].is_full_content
                                   /\ response.results[i].content = "absent"
    /\ \A i, j \in 1..Len(response.results) :
          i # j => response.results[i].url # response.results[j].url
    /\ response.depth = "normal"

MaxWorkers == 2

\* Bound on the other executor jobs that are queued or running.
MaxOtherJobs == MaxWorkers

DdgsItem(inst, c) ==
    [kind |-> "ddgs", inst |-> inst, call |-> c, cancelled |-> FALSE]

OtherItem == [kind |-> "other", inst |-> 0, call |-> 0, cancelled |-> FALSE]

BusyThreads == Cardinality(running) + running_other

OtherJobs ==
    running_other
    + Cardinality({k \in 1..Len(work_queue) : work_queue[k].kind = "other"})

\* Lines 187-207 (213-233): pool.get() returns an instance, run_in_executor
\* queues _do_search, the coroutine waits in wait_for.
CallStart(c) ==
    /\ c_pc[c] = "idle"
    /\ _ddgs_pool # <<>>
    /\ ~executor_shutdown
    /\ _ddgs_pool' = Tail(_ddgs_pool)
    /\ work_queue' = Append(work_queue, DdgsItem(Head(_ddgs_pool), c))
    /\ c_pc' = [c_pc EXCEPT ![c] = "awaiting"]
    /\ c_fut' = [c_fut EXCEPT ![c] = "pending"]
    /\ UNCHANGED <<running, running_other, loop_ready, executor_shutdown>>
    /\ UNCHANGED <<validate_vars, config_vars, scrape_vars, search_vars,
                   rest_vars>>

\* Lines 199-204 (226-230): run_in_executor raises; the instance is put back
\* and the exception propagates.
CallStartFails(c) ==
    /\ c_pc[c] = "idle"
    /\ _ddgs_pool # <<>>
    /\ executor_shutdown
    /\ _ddgs_pool' = Append(Tail(_ddgs_pool), Head(_ddgs_pool))
    /\ c_pc' = [c_pc EXCEPT ![c] = "raised"]
    /\ UNCHANGED <<c_fut, work_queue, running, running_other, loop_ready,
                   executor_shutdown>>
    /\ UNCHANGED <<validate_vars, config_vars, scrape_vars, search_vars,
                   rest_vars>>

\* A free worker thread takes the oldest work item.  An item whose future was
\* cancelled while it waited is dropped without running its function.
WorkerTake ==
    /\ work_queue # <<>>
    /\ BusyThreads < MaxWorkers
    /\ LET item == Head(work_queue) IN
       /\ work_queue' = Tail(work_queue)
       /\ IF item.kind = "other"
          THEN running_other' = running_other + 1 /\ UNCHANGED running
          ELSE IF item.cancelled
          THEN UNCHANGED <<running, running_other>>
          ELSE /\ running' = running \cup {[inst |-> item.inst,
                                             call |-> item.call]}
               /\ UNCHANGED running_other
    /\ UNCHANGED <<_ddgs_pool, c_pc, c_fut, loop_ready, executor_shutdown>>
    /\ UNCHANGED <<validate_vars, config_vars, scrape_vars, search_vars,
                   rest_vars>>

\* Lines 192-197 (219-224): _do_search ends, by return or by exception; its
\* finally clause hands put_nowait(ddgs) to the loop.
WorkerFinish(job, outcome) ==
    /\ job \in running
    /\ running' = running \ {job}
    /\ loop_ready' = Append(loop_ready, job.inst)
    /\ c_fut' = IF job.call # 0 THEN [c_fut EXCEPT ![job.call] = outcome]
                ELSE c_fut
    /\ UNCHANGED <<_ddgs_pool, c_pc, work_queue, running_other,
                   executor_shutdown>>
    /\ UNCHANGED <<validate_vars, config_vars, scrape_vars, search_vars,
                   rest_vars>>

\* The loop runs the callback of call_soon_threadsafe: put_nowait(ddgs).
LoopPut ==
    /\ loop_ready # <<>>
    /\ _ddgs_pool' = Append(_ddgs_pool, Head(loop_ready))
    /\ loop_ready' = Tail(loop_ready)
    /\ UNCHANGED <<c_pc, c_fut, work_queue, running, running_other,
                   executor_shutdown>>
    /\ UNCHANGED <<validate_vars, config_vars, scrape_vars, search_vars,
                   rest_vars>>

\* Line 207 (233): wait_for returns the list or re-raises the exception.
CallComplete(c) ==
    /\ c_pc[c] = "awaiting"
    /\ c_fut[c] \in {"ok", "exception"}
    /\ c_pc' = [c_pc EXCEPT ![c] = IF c_fut[c] = "ok" THEN "returned"
                                   ELSE "raised"]
    /\ c_fut' = [c_fut EXCEPT ![c] = "none"]
    /\ UNCHANGED <<_ddgs_pool, work_queue, running, running_other, loop_ready,
                   executor_shutdown>>
    /\ UNCHANGED <<validate_vars, config_vars, scrape_vars, search_vars,
                   rest_vars>>

\* wait_for cancels the future it waits for; the future of run_in_executor
\* passes the cancellation to the executor's future, which takes it only
\* while the work item has not started.
cancel_queued(queue, c) ==
    [k \in 1..Len(queue) |->
        IF queue[k].kind = "ddgs" /\ queue[k].call = c
        THEN [queue[k] EXCEPT !.cancelled = TRUE]
        ELSE queue[k]]

\* The instance that the work item or the running _do_search of call c holds.
held_by(c) ==
    {work_queue[k].inst : k \in {k \in 1..Len(work_queue) :
        work_queue[k].kind = "ddgs" /\ work_queue[k].call = c}}
    \cup {job.inst : job \in {j \in running : j.call = c}}

\* A plausible slip: the call that gives up puts its instance back itself.
pool_after_timeout_put_back(pool, c) ==
    IF held_by(c) = {} THEN pool
    ELSE Append(pool, CHOOSE inst \in held_by(c) : TRUE)

\* Lines 208-210 (234-236): the except clause of the timeout logs and
\* returns []; it does not touch the pool.
pool_after_timeout(pool, c) == pool

\* Lines 206-210 (232-236): wait_for times out and the call returns [].
\* TIMEOUT_SEARCH is 15 s and a free thread takes a work item at once, so a
\* timeout finds work waiting only when every thread is busy.
CallTimeout(c) ==
    /\ c_pc[c] = "awaiting"
    /\ c_fut[c] = "pending"
    /\ work_queue # <<>> => BusyThreads = MaxWorkers
    /\ work_queue' = cancel_queued(work_queue, c)
    /\ running' = {IF job.call = c THEN [job EXCEPT !.call = 0] ELSE job :
                      job \in running}
    /\ c_pc' = [c_pc EXCEPT ![c] = "returned"]
    /\ c_fut' = [c_fut EXCEPT ![c] = "none"]
    /\ _ddgs_pool' = pool_after_timeout(_ddgs_pool, c)
    /\ UNCHANGED <<running_other, loop_ready, executor_shutdown>>
    /\ UNCHANGED <<validate_vars, config_vars, scrape_vars, search_vars,
                   rest_vars>>

\* Another run_in_executor(None, ...) job is queued (line 601).
OtherSubmit ==
    /\ ~executor_shutdown
    /\ OtherJobs < MaxOtherJobs
    /\ work_queue' = Append(work_queue, OtherItem)
    /\ UNCHANGED <<_ddgs_pool, c_pc, c_fut, running, running_other,
                   loop_ready, executor_shutdown>>
    /\ UNCHANGED <<validate_vars, config_vars, scrape_vars, search_vars,
                   rest_vars>>

OtherFinish ==
    /\ running_other > 0
    /\ running_other' = running_other - 1
    /\ UNCHANGED <<_ddgs_pool, c_pc, c_fut, work_queue, running, loop_ready,
                   executor_shutdown>>
    /\ UNCHANGED <<validate_vars, config_vars, scrape_vars, search_vars,
                   rest_vars>>

\* The default executor is shut down; queued and running jobs still finish.
ExecutorShutdown ==
    /\ ~executor_shutdown
    /\ executor_shutdown' = TRUE
    /\ UNCHANGED <<_ddgs_pool, c_pc, c_fut, work_queue, running,
                   running_other, loop_ready>>
    /\ UNCHANGED <<validate_vars, config_vars, scrape_vars, search_vars,
                   rest_vars>>

InitPool ==
    /\ ValidateIdle
    /\ ScrapeIdle
    /\ SearchIdle
    /\ ConfigDefault
    /\ PoolIdle
    /\ RestIdle

NextPool ==
    \/ \E c \in Calls : CallStart(c)
    \/ \E c \in Calls : CallStartFails(c)
    \/ WorkerTake
    \/ \E job \in running, outcome \in {"ok", "exception"} :
          WorkerFinish(job, outcome)
    \/ LoopPut
    \/ \E c \in Calls : CallComplete(c)
    \/ \E c \in Calls : CallTimeout(c)
    \/ OtherSubmit
    \/ OtherFinish
    \/ ExecutorShutdown

SpecPool == InitPool /\ [][NextPool]_vars

\* Instances a work item or a running _do_search will still put back.
HeldInstances ==
    {work_queue[k].inst : k \in {k \in 1..Len(work_queue) :
        work_queue[k].kind = "ddgs" /\ ~work_queue[k].cancelled}}
    \cup {job.inst : job \in running}
    \cup Range(loop_ready)

NoWorkerCallPending ==
    /\ \A k \in 1..Len(work_queue) : work_queue[k].kind # "ddgs"
    /\ running = {}
    /\ loop_ready = <<>>
    /\ \A c \in Calls : c_pc[c] # "awaiting"

\* C5: every instance taken from the pool is put back exactly once on every
\* path: the instances in the pool and the instances held are always the 5
\* of the pool, none twice, and once no worker call is pending the pool
\* holds 5 again.
PoolNeverLeaks ==
    /\ Range(_ddgs_pool) \cup HeldInstances = 1..PoolSize
    /\ Len(_ddgs_pool) + Cardinality(HeldInstances) = PoolSize
    /\ NoWorkerCallPending => Len(_ddgs_pool) = PoolSize

(***************************************************************************)
(* The response to a search without results.                               *)
(***************************************************************************)
\* No provider call of the stub yields a result that passes _filter_results.
NoUsableResult(st) ==
    /\ _filter_results(_search_ddg(st.web, MaxWeb).items) = <<>>
    /\ _filter_results(_search_ddg_news(st.news, MaxWeb).items) = <<>>
    /\ \A j \in 1..Len(st.tgt) :
          _filter_results(_search_ddg(st.tgt[j], MaxWeb).items) = <<>>

\* C11: when no provider call yields a usable result, search() returns an
\* empty results list together with an error field.
NoResultsCarryError ==
    (Answered /\ NoUsableResult(stub)) =>
        /\ response.results = <<>>
        /\ response.error

(***************************************************************************)
(* The allow-list.                                                         *)
(***************************************************************************)
\* C12: with a non-empty allow-list, every URL in a returned results list
\* and every URL requested by the fetch, initial or redirect target, has an
\* allow-listed host.
AllowListEverywhere ==
    allowed_domains # {} =>
        /\ \A i \in 1..Len(response.results) :
              _is_allowed(response.results[i].url)
        /\ \A i \in 1..Len(requests) : _is_allowed(requests[i])

(***************************************************************************)
(* The intent classifier: SearchRouter.classify_intent and its bounded     *)
(* TTL cache (search_router.py).  A query is a name; what the code reads   *)
(* off it is given by the tables below.                                    *)
(***************************************************************************)
Queries ==
    {"Q1", " q1 ", "Latest Q2", "q3", "hi", "search for q1",
     "Document content: q1", "pasted text"}

\* query.lower()
lower(query) ==
    CASE query = "Q1" -> "q1"
      [] query = "Latest Q2" -> "latest q2"
      [] query = "Document content: q1" -> "document content: q1"
      [] OTHER -> query

\* str.strip()
strip(text) == IF text = " q1 " THEN "q1" ELSE text

\* len(query); "pasted text" stands for a query of 501 characters.
query_len(query) == IF query = "pasted text" THEN 501 ELSE 20

\* Lines 94-128: the fast paths, in the order the code tests them.
fast_path(query) ==
    IF lower(query) = "document content: q1"
    THEN [needs_search |-> FALSE, reason |-> "document"]
    ELSE IF query_len(query) > 500
    THEN [needs_search |-> FALSE, reason |-> "long"]
    ELSE IF lower(query) = "hi"
    THEN [needs_search |-> FALSE, reason |-> "greeting"]
    ELSE IF lower(query) = "search for q1"
    THEN [needs_search |-> TRUE, reason |-> "explicit"]
    ELSE NoResult

\* Line 131.
cache_key(query) == strip(lower(query))

\* Lines 224-302: a trigger word occurs in the lowercased query.
_heuristic_fallback(query) ==
    [needs_search |-> lower(query) = "latest q2", reason |-> "heuristic"]

\* cache_ttl_seconds, line 79.
cache_ttl_seconds == 120

IndexOfKey(cache, key) ==
    IF \E i \in 1..Len(cache) : cache[i].key = key
    THEN CHOOSE i \in 1..Len(cache) : cache[i].key = key
    ELSE 0

Without(cache, i) ==
    [j \in 1..(Len(cache) - 1) |-> IF j < i THEN cache[j] ELSE cache[j + 1]]

\* A plausible slip: an entry expires when its age reaches the TTL.
expired_at_ttl(entry, t) == t - entry.timestamp >= cache_ttl_seconds

\* Line 41.
expired(entry, t) == t - entry.timestamp > cache_ttl_seconds

\* Lines 36-46: _BoundedTTLCache.get; the cache after the call and the
\* value returned (hit FALSE stands for None).
cache_get(cache, key, t) ==
    LET i == IndexOfKey(cache, key) IN
    IF i = 0 THEN [cache |-> cache, hit |-> FALSE, value |-> NoResult]
    ELSE IF expired(cache[i], t)
    THEN [cache |-> Without(cache, i), hit |-> FALSE, value |-> NoResult]
    ELSE [cache |-> Append(Without(cache, i), cache[i]), hit |-> TRUE,
          value |-> cache[i].value]

\* Lines 52-53: the oldest entries go while the cache is at capacity.
RECURSIVE evict(_)
evict(cache) ==
    IF Len(cache) >= _max_size /\ cache # <<>> THEN evict(Tail(cache))
    ELSE cache

\* Lines 48-54: _BoundedTTLCache.set; an existing key keeps its place in the
\* OrderedDict.
cache_set(cache, key, value, t) ==
    LET kept == evict(cache)
        entry == [key |-> key, value |-> value, timestamp |-> t]
        i == IndexOfKey(kept, key)
    IN IF i = 0 THEN Append(kept, entry)
       ELSE [kept EXCEPT ![i] = entry]

\* ---- the reply of the classification call ----
\* status -1 stands for an exception of http_client.post.
Bodies ==
    {"json yes", "fenced json no", "think json yes", "open think json no",
     "open think only", "garbage", "no choices", "json list"}

Replies ==
    {[status |-> 200, body |-> b] : b \in Bodies}
    \cup {[status |-> 500, body |-> "json yes"],
          [status |-> -1, body |-> "garbage"]}

\* Line 181: the markdown fences are taken off.
strip_fences(content) ==
    IF content = "fenced json no" THEN "json no" ELSE content

\* Lines 185-187: closed <think> blocks are taken off.
strip_think(content) ==
    IF content = "think json yes" THEN "json yes" ELSE content

\* Lines 189-197: an unclosed <think> block; "" stands for no JSON found.
after_open_think(content) ==
    IF content = "open think json no" THEN "json no"
    ELSE IF content = "open think only" THEN ""
    ELSE content

\* Lines 176-222: the decision parsed from the reply, or the reason for the
\* heuristic fallback.
parse_reply(reply) ==
    IF reply.status = -1 THEN [ok |-> FALSE, why |-> "call failed"]
    ELSE IF reply.status # 200 THEN [ok |-> FALSE, why |-> "non-200"]
    ELSE IF reply.body = "no choices" THEN [ok |-> FALSE, why |-> "shape"]
    ELSE
    LET content == after_open_think(strip_think(strip_fences(reply.body))) IN
    IF content = "" THEN [ok |-> FALSE, why |-> "only thinking"]
    ELSE IF content = "json yes" THEN [ok |-> TRUE, why |-> "yes"]
    ELSE IF content = "json no" THEN [ok |-> TRUE, why |-> "no"]
    ELSE IF content = "json list" THEN [ok |-> FALSE, why |-> "not a dict"]
    ELSE [ok |-> FALSE, why |-> "unparsable"]

model_decision(parsed) ==
    [needs_search |-> parsed.why = "yes", reason |-> "model"]

\* The history of uses after the entry of key was read or written.
use(key) ==
    [k \in Keys |-> IF k = key THEN {} ELSE used_since[k] \cup {key}]

\* Lines 88-158: fast paths, cache lookup; on a miss the coroutine goes on
\* to http_client.post and waits for the reply.
ClassifyStart(c, query) ==
    /\ intent_calls[c].pc \in {"idle", "done"}
    /\ IF fast_path(query) # NoResult
       THEN /\ intent_calls' = [intent_calls EXCEPT ![c] =
                   [pc |-> "done", query |-> query,
                    result |-> fast_path(query), posted |-> FALSE,
                    turn |-> 1 - intent_calls[c].turn,
                    cache0 |-> _intent_cache]]
            /\ UNCHANGED <<_intent_cache, used_since>>
       ELSE LET got == cache_get(_intent_cache, cache_key(query), now) IN
            /\ _intent_cache' = got.cache
            /\ used_since' = IF got.hit THEN use(cache_key(query))
                             ELSE used_since
            /\ intent_calls' = [intent_calls EXCEPT ![c] =
                   IF got.hit
                   THEN [pc |-> "done", query |-> query,
                         result |-> got.value, posted |-> FALSE,
                         turn |-> 1 - intent_calls[c].turn,
                         cache0 |-> _intent_cache]
                   ELSE [pc |-> "posting", query |-> query,
                         result |-> NoResult, posted |-> TRUE,
                         turn |-> 1 - intent_calls[c].turn,
                         cache0 |-> _intent_cache]]
    /\ UNCHANGED <<_max_size, decided>>
    /\ UNCHANGED <<validate_vars, config_vars, scrape_vars, search_vars,
                   pool_vars, extract_vars, tail_vars>>

\* A plausible slip: the heuristic decision is stored as well.
cache_after_reply_storing_all(cache, query, parsed, t) ==
    cache_set(cache, cache_key(query),
              IF parsed.ok THEN model_decision(parsed)
              ELSE _heuristic_fallback(query), t)

\* Lines 199-222: only a parsed decision reaches _intent_cache.set.
cache_after_reply(cache, query, parsed, t) ==
    IF parsed.ok
    THEN cache_set(cache, cache_key(query), model_decision(parsed), t)
    ELSE cache

\* Lines 170-222: the reply arrives; a parsed decision is stored and
\* returned, anything else ends in _heuristic_fallback.
ClassifyReply(c, reply) ==
    /\ intent_calls[c].pc = "posting"
    /\ LET query == intent_calls[c].query
           parsed == parse_reply(reply)
       IN
       /\ _intent_cache' = cache_after_reply(_intent_cache, query, parsed, now)
       /\ IF parsed.ok
          THEN /\ intent_calls' = [intent_calls EXCEPT ![c].pc = "done",
                                      ![c].result = model_decision(parsed)]
               /\ decided' = [decided EXCEPT ![cache_key(query)] =
                                 [at |-> now, value |-> model_decision(parsed)]]
               /\ used_since' = use(cache_key(query))
          ELSE /\ intent_calls' = [intent_calls EXCEPT ![c].pc = "done",
                                      ![c].result = _heuristic_fallback(query)]
               /\ UNCHANGED <<decided, used_since>>
    /\ UNCHANGED _max_size
    /\ UNCHANGED <<validate_vars, config_vars, scrape_vars, search_vars,
                   pool_vars, extract_vars, tail_vars>>

\* Time passes.
RouterTickSteps == {60, 61}

RouterTick ==
    /\ \E d \in RouterTickSteps : now + d <= MaxClock /\ now' = now + d
    /\ UNCHANGED <<_timestamps, stub, last_call, response, scrape_log>>
    /\ UNCHANGED <<validate_vars, config_vars, scrape_vars, pool_vars,
                   rest_vars>>

\* Largest cache_max_size the model starts from.
MaxCacheSize == 2

InitRouter ==
    /\ ValidateIdle
    /\ ScrapeIdle
    /\ SearchIdle
    /\ PoolIdle
    /\ ConfigDefault
    /\ ExtractIdle
    /\ TailIdle
    /\ _intent_cache = <<>>
    /\ _max_size \in 1..MaxCacheSize
    /\ intent_calls = [c \in IntentCalls |-> IdleCall]
    /\ decided = [k \in Keys |-> NoDecision]
    /\ used_since = [k \in Keys |-> {}]

NextRouter ==
    \/ \E c \in IntentCalls, query \in Queries : ClassifyStart(c, query)
    \/ \E c \in IntentCalls, reply \in Replies : ClassifyReply(c, reply)
    \/ RouterTick

SpecRouter == InitRouter /\ [][NextRouter]_vars

\* A classify_intent call on a query that takes no fast path starts in this
\* step.
StartsLookup(c) ==
    /\ intent_calls'[c].turn # intent_calls[c].turn
    /\ fast_path(intent_calls'[c].query) = NoResult

\* The call answers from the cache, without the classification call.
AnswersFromCache(c, d) ==
    /\ intent_calls'[c].pc = "done"
    /\ ~intent_calls'[c].posted
    /\ intent_calls'[c].result = d.value

IssuesCall(c) ==
    /\ intent_calls'[c].pc = "posting"
    /\ intent_calls'[c].posted

Replies_to(c) ==
    /\ intent_calls[c].pc = "posting"
    /\ intent_calls'[c].pc = "done"

EndsInFallback(c) == intent_calls'[c].result.reason = "heuristic"

\* The entry of key in the cache, as a set (empty when there is none).
EntriesOf(cache, key) ==
    {cache[i] : i \in {j \in 1..Len(cache) : cache[j].key = key}}

WritesDecision(c) ==
    LET k == cache_key(intent_calls[c].query) IN
    /\ intent_calls'[c].result.reason = "model"
    /\ EntriesOf(_intent_cache', k) =
          {[key |-> k, value |-> intent_calls'[c].result, timestamp |-> now]}

\* C14 as stated: a call that ends in the heuristic fallback leaves the
\* cache as it found it, and a call that parses a decision leaves exactly
\* that decision under the normalized query.
FallbackLeavesCache ==
    [][\A c \in IntentCalls :
        Replies_to(c) =>
            IF EndsInFallback(c)
            THEN _intent_cache' = intent_calls[c].cache0
            ELSE WritesDecision(c)]_vars

\* The cache without the entry of key, if that entry has expired at time t.
WithoutExpired(cache, key, t) ==
    SelectSeq(cache, LAMBDA e : ~(e.key = key /\ expired(e, t)))

\* C14 amended: a call that ends in the heuristic fallback writes nothing to
\* the cache; the cache it leaves is the one it found, less the expired entry
\* of its own key that the lookup deleted.
FallbackWritesNothing ==
    [][\A c \in IntentCalls :
        Replies_to(c) =>
            IF EndsInFallback(c)
            THEN \E t \in 0..now :
                    _intent_cache' = WithoutExpired(intent_calls[c].cache0,
                                        cache_key(intent_calls[c].query), t)
            ELSE WritesDecision(c)]_vars

\* C14 witness: a call found two entries, got a reply with only reasoning
\* text, returned the heuristic decision and left both entries.
FallbackWitness ==
    \E c \in IntentCalls :
        /\ intent_calls[c].pc = "done"
        /\ intent_calls[c].posted
        /\ intent_calls[c].result.reason = "heuristic"
        /\ Len(intent_calls[c].cache0) = 2
        /\ _intent_cache = intent_calls[c].cache0

(***************************************************************************)
(* search() when the parallel tasks complete in any order.                 *)
(***************************************************************************)
CompletionOrders ==
    [late : SUBSET {"a", "b", "n", "d"},
     late_tgt : {{}, {1}, {2}, {1, 2}},
     news_first : BOOLEAN]

OrderStubs ==
    [web : {Ok(<<"a", "b", "x">>), Ok(<<"x", "a", "b", "c">>)},
     news : {Ok(<<"n">>), Ok(<<"n", "a">>)},
     tgt : {<<Ok(<<"d">>), Ok(<<"c">>)>>,
            <<Ok(<<"d", "y">>), Ok(<<>>), Ok(<<"c">>)>>},
     dead : {{}, {"a"}},
     order : CompletionOrders]

InitOrder ==
    /\ ValidateIdle
    /\ ScrapeIdle
    /\ PoolIdle
    /\ RestIdle
    /\ allowed_domains = {}
    /\ _rate_limit = 0
    /\ now = 0
    /\ _timestamps = <<>>
    /\ stub \in OrderStubs
    /\ last_call = NoCall
    /\ response = NoResponse
    /\ scrape_log = <<>>

NextOrder == \E q_len \in QueryLengths, depth \in Depths : search(q_len, depth)

SpecOrder == InitOrder /\ [][NextOrder]_vars

\* The stub with every fan-out completing in task order.
Sequential(st) == [st EXCEPT !.order = InOrder]

PhaseRank(phase) ==
    CASE phase \in {"broad", "primary"} -> 1
      [] phase = "snippet" -> 2
      [] phase = "news" -> 3
      [] phase = "targeted" -> 4

\* s can be obtained from t by leaving elements out.
RECURSIVE IsSubseq(_, _)
IsSubseq(s, t) ==
    IF s = <<>> THEN TRUE
    ELSE IF t = <<>> THEN FALSE
    ELSE IF Head(s) = Head(t) THEN IsSubseq(Tail(s), Tail(t))
    ELSE IsSubseq(s, Tail(t))

\* The provider's list a phase draws from.
ProviderList(st, phase) ==
    IF phase = "news" THEN st.news.items
    ELSE IF phase = "targeted"
    THEN flatten([j \in 1..Len(st.tgt) |-> st.tgt[j].items])
    ELSE st.web.items

\* The URLs of the entries of one phase, scraped or blocked, in result order.
UrlsOfPhase(results, phase, blocked) ==
    LET picked == SelectSeq(results,
            LAMBDA e : e.phase = phase /\ (_is_blocked_domain(e.url) = blocked))
    IN [i \in 1..Len(picked) |-> picked[i].url]

Redirected == s_pc = "get" /\ redirect_count' = redirect_count + 1

RedirectFollowed == s_pc' = "validate" /\ current_url' = resp'.location

\* client.get was answered with status 200 and a page that has text.
PageReceived ==
    /\ s_pc = "get"
    /\ s_pc' = "done"
    /\ redirect_count' = redirect_count
    /\ resp' # resp
    /\ resp'.status = 200
    /\ resp'.text # ""

\* C16 as stated: each of the first 5 redirects of a chain is followed, the
\* page that ends the chain is returned, and no chain is followed further.
FiveRedirectsFollowed ==
    [][/\ (Redirected /\ redirect_count' <= 5) => RedirectFollowed
       /\ PageReceived => s_result' = [returned |-> TRUE, text |-> current_url]
       /\ Len(requests') <= 6]_vars

\* C16 amended: the loop issues at most 5 requests.  Each of the first 4
\* redirects is followed and the page that ends the chain is returned; the
\* fifth redirect ends the fetch with the empty string.
FiveRequestsAtMost ==
    [][/\ (Redirected /\ redirect_count' <= 4) => RedirectFollowed
       /\ (Redirected /\ redirect_count' = 5) =>
              /\ s_pc' = "done"
              /\ s_result' = [returned |-> TRUE, text |-> ""]
       /\ PageReceived => s_result' = [returned |-> TRUE, text |-> current_url]
       /\ Len(requests') <= 5]_vars

\* C16 witness: four redirects were followed and the fifth request returned
\* the page.
FourRedirectsWitness ==
    /\ s_pc = "done"
    /\ redirect_count = 4
    /\ Len(requests) = 5
    /\ resp.status = 200
    /\ s_result.returned
    /\ s_result.text # ""

(***************************************************************************)
(* The address a request connects to.                                      *)
(***************************************************************************)
\* C17: the address a request connects to is one of the addresses that
\* validate_url resolved and approved for that hop.
ConnectsToValidatedAddress ==
    (connected_to # "none" /\ requests # <<>>) =>
        LET checked == validations[Len(requests)] IN
        /\ checked.url = requests[Len(requests)]
        /\ checked.is_safe
        /\ \E i \in 1..Len(checked.dns.addrs) :
              checked.dns.addrs[i] = connected_to
        /\ is_ip_allowed(connected_to)

\* ---- C18: the depth profiles ----
\* The numbers a profile is compared on.
ProfileFields ==
    {"broad_results", "news_results", "targeted_queries",
     "scrape_limit_broad", "scrape_limit_news", "scrape_limit_targeted",
     "max_words"}

StrictlyBelow(low, high) == \A f \in ProfileFields : low[f] < high[f]

ProfilesIncrease ==
    /\ StrictlyBelow(normal_config, deep_config)
    /\ StrictlyBelow(deep_config, deeper_config)

\* The targeted phase of a multi-phase search is reached: phase 1 raised
\* nothing and found a web or a news result (lines 427-439).
ReachesTargetedPhase(st) ==
    LET broad == _search_ddg(st.web, deep_config.broad_results)
        news == _search_ddg_news(st.news, deep_config.news_results)
    IN /\ ~broad.raised /\ ~news.raised
       /\ \/ _filter_results(broad.items) # <<>>
          \/ _filter_results(news.items) # <<>>

noise_tags ==
    {"script", "style", "nav", "footer", "header", "aside", "iframe",
     "form", "noscript", "svg", "button", "input", "select", "textarea",
     "label", "menu", "menuitem", "dialog", "template", "canvas", "video",
     "audio", "source", "picture"}

\* Lines 698-728.
noise_class_patterns ==
    {<<"a", "d">>, <<"a", "d", "s">>, <<"a", "d", "v", "e", "r", "t">>,
     <<"a", "d", "v", "e", "r", "t", "i", "s", "e", "m", "e", "n", "t">>,
     <<"b", "a", "n", "n", "e", "r">>,
     <<"s", "i", "d", "e", "b", "a", "r">>,
     <<"s", "i", "d", "e", "-", "b", "a", "r">>,
     <<"s", "i", "d", "e", "_", "b", "a", "r">>,
     <<"c", "o", "m", "m", "e", "n", "t">>,
     <<"c", "o", "m", "m", "e", "n", "t", "s">>,
     <<"d", "i", "s", "c", "u", "s", "s", "i", "o", "n">>,
     <<"s", "h", "a", "r", "e">>, <<"s", "h", "a", "r", "i", "n", "g">>,
     <<"s", "o", "c", "i", "a", "l">>,
     <<"r", "e", "l", "a", "t", "e", "d">>,
     <<"r", "e", "c", "o", "m", "m", "e", "n", "d", "e", "d">>,
     <<"s", "u", "g", "g", "e", "s", "t", "i", "o", "n", "s">>,
     <<"n", "e", "w", "s", "l", "e", "t", "t", "e", "r">>,
     <<"s", "u", "b", "s", "c", "r", "i", "b", "e">>,
     <<"s", "i", "g", "n", "u", "p">>, <<"p", "o", "p", "u", "p">>,
     <<"m", "o", "d", "a", "l">>, <<"o", "v", "e", "r", "l", "a", "y">>,
     <<"c", "o", "o", "k", "i", "e">>, <<"g", "d", "p", "r">>,
     <<"c", "o", "n", "s", "e", "n", "t">>,
     <<"n", "a", "v", "i", "g", "a", "t", "i", "o", "n">>,
     <<"b", "r", "e", "a", "d", "c", "r", "u", "m", "b">>,
     <<"m", "e", "n", "u">>}

\* str.lower(), on the letters the class values of the model hold.
lower_char(ch) ==
    CASE ch = "A" -> "a"
      [] ch = "D" -> "d"
      [] ch = "S" -> "s"
      [] OTHER -> ch

lower_chars(s) == [i \in 1..Len(s) |-> lower_char(s[i])]

\* " ".join(class_val)
RECURSIVE join(_)
join(class_val) ==
    IF class_val = <<>> THEN <<>>
    ELSE IF Len(class_val) = 1 THEN class_val[1]
    ELSE class_val[1] \o <<" ">> \o join(Tail(class_val))

\* Python's `pattern in classes` on strings.
contains(pattern, classes) ==
    \E i \in 0..(Len(classes) - Len(pattern)) :
        SubSeq(classes, i + 1, i + Len(pattern)) = pattern

\* Lines 731-741: the test that puts an element on elements_to_remove.
has_noise_class(class_val) ==
    /\ class_val # <<>>
    /\ \E pattern \in noise_class_patterns :
           contains(pattern, lower_chars(join(class_val)))

\* The element and its ancestors up to <body>.
RECURSIVE ancestors_or_self(_, _)
ancestors_or_self(doc, i) ==
    IF i = 0 THEN {0} ELSE {i} \cup ancestors_or_self(doc, doc[i].parent)

\* Tag.decompose() on each of roots: the elements and all below them.
decompose(doc, roots) ==
    {i \in 1..Len(doc) : ancestors_or_self(doc, i) \cap roots # {}}

\* Lines 731-741: the elements whose class value the test accepts.
noise_class_elements(doc) ==
    {i \in 1..Len(doc) : has_noise_class(doc[i].class)}

\* Lines 694-747: the noise tags go first, then every element still in the
\* tree that is one of noise_classed, each with its subtree.
removed_elements(doc, noise_classed) ==
    LET by_tag == decompose(doc, {i \in 1..Len(doc) : doc[i].tag \in noise_tags})
        elements_to_remove == noise_classed \ by_tag
    IN by_tag \cup decompose(doc, elements_to_remove)

\* get_text(): the elements at or below e that are left, in document order;
\* each stands for its own text.
get_text(doc, removed, e) ==
    SelectSeq([i \in 1..Len(doc) |-> i],
              LAMBDA i : i \notin removed /\ e \in ancestors_or_self(doc, i))

\* len(get_text(strip=True))
RECURSIVE text_len(_, _)
text_len(doc, text) ==
    IF text = <<>> THEN 0
    ELSE doc[Head(text)].chars + text_len(doc, Tail(text))

\* Lines 751-763: the containers, in priority order.
content_selectors ==
    <<[by |-> "tag", value |-> "article"],
      [by |-> "tag", value |-> "main"],
      [by |-> "role", value |-> "main"],
      [by |-> "class", value |-> <<"a", "r", "t", "i", "c", "l", "e", "-", "c", "o", "n", "t", "e", "n", "t">>],
      [by |-> "class", value |-> <<"a", "r", "t", "i", "c", "l", "e", "-", "b", "o", "d", "y">>],
      [by |-> "class", value |-> <<"p", "o", "s", "t", "-", "c", "o", "n", "t", "e", "n", "t">>],
      [by |-> "class", value |-> <<"e", "n", "t", "r", "y", "-", "c", "o", "n", "t", "e", "n", "t">>],
      [by |-> "class", value |-> <<"c", "o", "n", "t", "e", "n", "t", "-", "b", "o", "d", "y">>],
      [by |-> "id", value |-> "article-body"],
      [by |-> "id", value |-> "content"],
      [by |-> "class", value |-> <<"s", "t", "o", "r", "y", "-", "b", "o", "d", "y">>]>>

\* Does the element match the CSS selector.
matches(el, selector) ==
    CASE selector.by = "tag" -> el.tag = selector.value
      [] selector.by = "role" -> el.role = selector.value
      [] selector.by = "id" -> el.id = selector.value
      [] OTHER -> \E k \in 1..Len(el.class) : el.class[k] = selector.value

\* select_one's None.
None == -1

\* soup.select_one(selector): the first match in document order.
select_one(doc, removed, selector) ==
    LET found == {i \in (1..Len(doc)) \ removed : matches(doc[i], selector)}
    IN IF found = {} THEN None
       ELSE CHOOSE i \in found : \A j \in found : i <= j

\* A plausible slip: the first container found is taken whatever its length.
RECURSIVE select_content_any_length(_, _, _)
select_content_any_length(doc, removed, k) ==
    IF k > Len(content_selectors) THEN None
    ELSE LET content == select_one(doc, removed, content_selectors[k])
         IN IF content # None THEN content
            ELSE select_content_any_length(doc, removed, k + 1)

\* Lines 765-772: the first selector whose first match has more than 200
\* characters of text.
RECURSIVE select_content(_, _, _)
select_content(doc, removed, k) ==
    IF k > Len(content_selectors) THEN None
    ELSE LET content == select_one(doc, removed, content_selectors[k])
         IN IF content # None
               /\ text_len(doc, get_text(doc, removed, content)) > 200
            THEN content
            ELSE select_content(doc, removed, k + 1)

\* Lines 774-776: the fallback to <body>.
content_or_body(content) == IF content = None THEN 0 ELSE content

\* Lines 648-783 of _scrape_url: parse, clean, select, take the text.
ExtractContent ==
    /\ document # NoDocument
    /\ ~extracted.done
    /\ LET removed == removed_elements(document, noise_class_elements(document))
           content == content_or_body(select_content(document, removed, 1))
       IN extracted' = [done |-> TRUE, removed |-> removed,
                        content |-> content,
                        text |-> get_text(document, removed, content)]
    /\ UNCHANGED document
    /\ UNCHANGED <<validate_vars, config_vars, scrape_vars, search_vars,
                   pool_vars, router_vars, tail_vars>>

\* ---- the pages of the model ----
\* Most elements of a generated page.
MaxNodes == 2

\* Characters of an element's own text: short, or long enough to be content.
TextLengths == {50, 300}

NoClass == <<>>

\* The class values a <div> of a generated page may carry.
ClassValues ==
    {NoClass,
     <<<<"a", "d">>>>, <<<<"a", "d", "s">>>>, <<<<"t", "e", "x", "t", "-", "a", "d">>>>,
     <<<<"a", "d", "v", "e", "r", "t", "i", "s", "e", "m", "e", "n", "t">>>>,
     <<<<"s", "h", "a", "d", "o", "w">>>>, <<<<"a", "d", "d">>>>,
     <<<<"g", "r", "a", "d", "i", "e", "n", "t">>>>, <<<<"t", "h", "r", "e", "a", "d">>>>,
     <<<<"c", "a", "r", "d">>, <<"A", "D">>>>,
     <<<<"S", "i", "d", "e", "b", "a", "r">>>>,
     <<<<"p", "o", "s", "t", "-", "c", "o", "n", "t", "e", "n", "t">>>>}

\* The class values an <article> or <main> of a generated page may carry.
ContainerClasses ==
    {NoClass, <<<<"t", "h", "r", "e", "a", "d">>>>, <<<<"s", "i", "d", "e", "b", "a", "r">>>>}

Element(tag, class, parent, chars) ==
    [tag |-> tag, class |-> class, parent |-> parent, chars |-> chars,
     role |-> "", id |-> ""]

\* The elements of a generated page of n elements; a generated <div> has a
\* short text.
Elements(n) ==
    {Element("div", c, p, 50) : c \in ClassValues, p \in 0..(n - 1)}
    \cup {Element(tg, c, p, k) :
            tg \in {"article", "main"}, c \in ContainerClasses,
            p \in 0..(n - 1), k \in TextLengths}
    \cup {Element("aside", NoClass, p, k) :
            p \in 0..(n - 1), k \in TextLengths}

\* The generated pages of n elements: in document order an element is a
\* child of <body>, of the element before it or of one of its ancestors.
PagesOf(n) ==
    {d \in [1..n -> Elements(n)] :
        \A i \in 1..n :
            d[i].parent \in IF i = 1 THEN {0}
                            ELSE ancestors_or_self(d, i - 1)}

\* <div class="sidebar"><article>short</article></div>
\* <main><article>long prose</article></main>
SidebarThenMain ==
    <<Element("div", <<<<"s", "i", "d", "e", "b", "a", "r">>>>, 0, 0),
      Element("article", NoClass, 1, 50),
      Element("main", NoClass, 0, 0),
      Element("article", NoClass, 3, 300)>>

\* <article><div class="ad">long ad</div></article><main>long prose</main>
NoisyArticleThenMain ==
    <<Element("article", NoClass, 0, 0),
      Element("div", <<<<"a", "d">>>>, 1, 300),
      Element("main", NoClass, 0, 300)>>

\* <div id="content">long prose<div class="comments">long</div></div>
ContentById ==
    <<[Element("div", NoClass, 0, 300) EXCEPT !.id = "content"],
      Element("div", <<<<"c", "o", "m", "m", "e", "n", "t", "s">>>>, 1, 300)>>

ExamplePages == {SidebarThenMain, NoisyArticleThenMain, ContentById}

InitExtract ==
    /\ ValidateIdle
    /\ ScrapeIdle
    /\ SearchIdle
    /\ PoolIdle
    /\ RouterIdle
    /\ TailIdle
    /\ ConfigDefault
    /\ \/ \E n \in 1..MaxNodes : document \in PagesOf(n)
       \/ document \in ExamplePages
    /\ extracted = NotExtracted

NextExtract == ExtractContent

SpecExtract == InitExtract /\ [][NextExtract]_vars

\* ---- C19: the noise-class matcher ----
\* Characters that end a word for the regular expression's \b.
IsWordChar(ch) == ch \notin {" ", "-"}

\* A pattern found in the class value as a whole word, letter case aside.
whole_token_noise(class_val) ==
    LET classes == lower_chars(join(class_val)) IN
    \E pattern \in noise_class_patterns :
      \E i \in 0..(Len(classes) - Len(pattern)) :
        /\ SubSeq(classes, i + 1, i + Len(pattern)) = pattern
        /\ i = 0 \/ ~IsWordChar(classes[i])
        /\ i + Len(pattern) = Len(classes)
           \/ ~IsWordChar(classes[i + Len(pattern) + 1])

\* The elements whose removal only their own class value can explain.
JudgedByOwnClass ==
    {i \in 1..Len(document) :
        /\ document[i].tag \notin noise_tags
        /\ ancestors_or_self(document, document[i].parent)
               \cap extracted.removed = {}}

MatchExamples ==
    {<<<<"a", "d">>>>, <<<<"a", "d", "s">>>>,
     <<<<"t", "e", "x", "t", "-", "a", "d">>>>,
     <<<<"a", "d", "v", "e", "r", "t", "i", "s", "e", "m", "e", "n", "t">>>>}

NoMatchExamples ==
    {<<<<"s", "h", "a", "d", "o", "w">>>>, <<<<"a", "d", "d">>>>,
     <<<<"g", "r", "a", "d", "i", "e", "n", "t">>>>,
     <<<<"t", "h", "r", "e", "a", "d">>>>}

\* C19: an element is removed as noise exactly when a pattern matches its
\* class value as a whole token, letter case aside; elements of class "ad",
\* "ads", "text-ad" and "advertisement" are removed, elements of class
\* "shadow", "add", "gradient" and "thread" are kept.
NoiseIsWholeToken ==
    extracted.done =>
        \A i \in JudgedByOwnClass :
            /\ i \in extracted.removed <=> whole_token_noise(document[i].class)
            /\ document[i].class \in MatchExamples => i \in extracted.removed
            /\ document[i].class \in NoMatchExamples => i \notin extracted.removed

\* ---- C20: content selection ----
\* The elements that are noise for the claim, each with its subtree: the
\* noise tags and the elements a pattern matches as a whole token.
NoiseForClaim ==
    removed_elements(document,
        {i \in 1..Len(document) : whole_token_noise(document[i].class)})

\* C20: the output is the text, noise taken off, of the first container in
\* selector priority order whose text without noise is longer than 200
\* characters, and of <body> when no container qualifies; no text from
\* inside a noise-class element is in the output, and no text of the
\* selected container outside noise is missing from it.
FirstLongCandidateOrBody ==
    extracted.done =>
        LET content == content_or_body(select_content(document, NoiseForClaim, 1))
        IN /\ extracted.content = content
           /\ extracted.text = get_text(document, NoiseForClaim, content)
           /\ \A k \in 1..Len(extracted.text) :
                  extracted.text[k] \notin NoiseForClaim

(***************************************************************************)
(* Truncation: lines 785-803 of _scrape_url.  A word, like the text, is    *)
(* the sequence of its characters; the text is its words joined by single  *)
(* spaces.                                                                 *)
(***************************************************************************)
\* str.rfind(sub) for a two-character sub: the 0-based index of the last
\* occurrence, -1 when there is none.
rfind(s, sub) ==
    LET found == {i \in 0..(Len(s) - 2) : SubSeq(s, i + 1, i + 2) = sub}
    IN IF found = {} THEN -1
       ELSE CHOOSE i \in found : \A j \in found : j <= i

Max3(a, b, c) ==
    LET ab == IF a >= b THEN a ELSE b IN IF ab >= c THEN ab ELSE c

\* A plausible slip: any sentence boundary is taken, however far back.
not_too_far_back_any(sentence_end, length) == sentence_end > 0

\* Line 798: sentence_end > len(truncated_text) * 0.7
not_too_far_back(sentence_end, length) == 10 * sentence_end > 7 * length

\* Lines 787-803.
truncate(ws, limit) ==
    IF Len(ws) > limit
    THEN LET truncated_text == join(SubSeq(ws, 1, limit))
             sentence_end == Max3(rfind(truncated_text, <<".", " ">>),
                                  rfind(truncated_text, <<"!", " ">>),
                                  rfind(truncated_text, <<"?", " ">>))
         IN IF not_too_far_back(sentence_end, Len(truncated_text))
            THEN SubSeq(truncated_text, 1, sentence_end + 1)
            ELSE truncated_text \o <<".", ".", ".">>
    ELSE join(ws)

\* Lines 785-803 of _scrape_url.
Truncate ==
    /\ words # <<>>
    /\ ~final_text.done
    /\ final_text' = [done |-> TRUE, value |-> truncate(words, max_words)]
    /\ UNCHANGED <<words, max_words>>
    /\ UNCHANGED not_truncate_vars

\* ---- the texts of the model ----
\* Most words of a text.
MaxTextWords == 5

\* The words a text is made of.
Vocabulary ==
    {<<"a">>, <<"b", ".">>, <<"c", "!">>, <<"d", "?">>,
     <<"e", "e", "e", "e", "e", "e">>, <<"f", ".", "f">>}

\* The max_words arguments of the model.
WordLimits == {2, 4}

InitTruncate ==
    /\ ValidateIdle
    /\ ScrapeIdle
    /\ SearchIdle
    /\ PoolIdle
    /\ RouterIdle
    /\ ExtractIdle
    /\ AuthIdle
    /\ LateIdle
    /\ ConfigDefault
    /\ \E n \in 1..MaxTextWords : words \in [1..n -> Vocabulary]
    /\ max_words \in WordLimits
    /\ final_text = NotTruncated

NextTruncate == Truncate

SpecTruncate == InitTruncate /\ [][NextTruncate]_vars

\* ---- C21: truncation ----
\* The number of whitespace-separated tokens of a text.
Tokens(s) ==
    IF s = <<>> THEN 0 ELSE 1 + Cardinality({i \in 1..Len(s) : s[i] = " "})

\* The first max_words words.
Window == SubSeq(words, 1, max_words)

\* Word i of the window ends a sentence and a space follows it in the window.
EndsSentence(i) ==
    /\ i < Len(Window)
    /\ Window[i][Len(Window[i])] \in {".", "!", "?"}

\* The 0-based position of the last character of word i in the joined window.
EndOf(i) == Len(join(SubSeq(Window, 1, i))) - 1

\* The terminator of word i lies in the last 30% of the window.
InLastThirty(i) == 10 * EndOf(i) > 7 * Len(join(Window))

Boundaries == {i \in 1..Len(Window) : EndsSentence(i) /\ InLastThirty(i)}

\* C21: a text of more than max_words words comes out with at most max_words
\* tokens; when a sentence terminator followed by a space lies in the last
\* 30% of the window of the first max_words words the output ends exactly at
\* the last such terminator, without ellipsis, otherwise it is the window
\* followed by "..."; a text of at most max_words words comes out unchanged.
TruncationContract ==
    final_text.done =>
        IF Len(words) > max_words
        THEN /\ Tokens(final_text.value) <= max_words
             /\ IF Boundaries # {}
                THEN LET last == CHOOSE i \in Boundaries :
                                     \A j \in Boundaries : j <= i
                     IN final_text.value = join(SubSeq(words, 1, last))
                ELSE final_text.value = join(Window) \o <<".", ".", ".">>
        ELSE final_text.value = join(words)

\* A text of five words cut at four, of which the third ends a sentence in
\* the last 30% of the window: the output is the first three words.
SentenceCutWitness ==
    /\ final_text.done
    /\ Len(words) = 5
    /\ max_words = 4
    /\ Boundaries # {}
    /\ Tokens(final_text.value) = 3
    /\ final_text.value[Len(final_text.value)] = "."

(***************************************************************************)
(* Password authentication: RateLimiter and check_password of              *)
(* auth/password.py, with a password configured and SERVER_MODE not MOCK.  *)
(* `now` is time.time().  check_password does all its work on the limiter  *)
(* before its only await (the sleep of line 188), so a call is one step.   *)
(***************************************************************************)
\* Line 28: the defaults the module's instance is built with.
max_attempts == 5
block_duration == 300

\* Lines 85-95.
cleanup(rl, t) ==
    [rl EXCEPT
        !.blocked_ips = [ip \in AuthIps |->
            IF rl.blocked_ips[ip] # -1 /\ rl.blocked_ips[ip] > t
            THEN rl.blocked_ips[ip] ELSE -1],
        !.failed_attempts = [ip \in AuthIps |->
            IF rl.failed_attempts[ip] # NoAttempts
               /\ t - rl.failed_attempts[ip].first < 3600
            THEN rl.failed_attempts[ip] ELSE NoAttempts]]

\* Line 44.
still_blocked(t, unblock_time) == t < unblock_time

\* Lines 35-50: the limiter after the call, and the answer.
is_blocked(rl, ip, t) ==
    LET swept == IF rl._access_counter + 1 > 100
                 THEN [cleanup(rl, t) EXCEPT !._access_counter = 0]
                 ELSE [rl EXCEPT !._access_counter = rl._access_counter + 1]
    IN IF swept.blocked_ips[ip] # -1
       THEN IF still_blocked(t, swept.blocked_ips[ip])
            THEN [rl |-> swept, blocked |-> TRUE]
            ELSE [rl |-> [swept EXCEPT !.blocked_ips[ip] = -1,
                                       !.failed_attempts[ip] = NoAttempts],
                  blocked |-> FALSE]
       ELSE [rl |-> swept, blocked |-> FALSE]

\* Lines 73-76.
block_ip(rl, ip, t) == [rl EXCEPT !.blocked_ips[ip] = t + block_duration]

\* Lines 52-71.
record_failure(rl, ip, t) ==
    LET checked == is_blocked(rl, ip, t) IN
    IF checked.blocked THEN checked.rl
    ELSE
    LET entry == checked.rl.failed_attempts[ip]
        count0 == IF entry = NoAttempts THEN 0 ELSE entry.count
        first0 == IF entry = NoAttempts THEN t ELSE entry.first
        stale == t - first0 > 3600
        count == (IF stale THEN 0 ELSE count0) + 1
        first_time == IF stale THEN t ELSE first0
        counted == [checked.rl EXCEPT !.failed_attempts[ip] =
                        [count |-> count, first |-> first_time]]
    IN IF count >= max_attempts THEN block_ip(counted, ip, t) ELSE counted

\* Lines 78-83.
reset(rl, ip) ==
    [rl EXCEPT !.failed_attempts[ip] = NoAttempts, !.blocked_ips[ip] = -1]

\* A plausible slip: the peer address is used whatever the headers say.
get_client_ip_peer(request) == request.host

\* Lines 142-151: forwarded is the X-Forwarded-For list, <<>> when absent.
get_client_ip(request) ==
    IF request.forwarded # <<>> THEN request.forwarded[1] ELSE request.host

\* The requests of the model: two clients that connect directly, and one
\* of them also through a reverse proxy.
AuthRequests ==
    {[host |-> "h1", forwarded |-> <<>>],
     [host |-> "h2", forwarded |-> <<>>],
     [host |-> "proxy", forwarded |-> <<"h1", "proxy">>]}

XPasswords == {"correct", "wrong"}

\* Most check_password calls of a behaviour.
MaxAuthCalls == 7

\* The client a request comes from: the first X-Forwarded-For entry, else
\* the peer.
ClientOf(request) ==
    IF request.forwarded = <<>> THEN request.host ELSE request.forwarded[1]

\* The history of a client after one more answer.
observe(h, status, t) ==
    IF status # 401
    THEN [h EXCEPT !.last = status, !.run = 0]
    ELSE LET run == h.run + 1
             run_first == IF h.run = 0 THEN t ELSE h.run_first
             blocks == run = 5 /\ t - run_first < 3600
         IN [last |-> 401,
             run |-> IF blocks THEN 0 ELSE run,
             run_first |-> run_first,
             fails |-> IF h.fails < 5 THEN h.fails + 1 ELSE h.fails,
             fifth_at |-> IF h.fails = 4 THEN t ELSE h.fifth_at,
             blocked_until |-> IF blocks THEN t + 300 ELSE h.blocked_until,
             since_expiry |->
                 IF blocks THEN 0
                 ELSE IF h.blocked_until # -1 /\ t >= h.blocked_until
                 THEN h.since_expiry + 1
                 ELSE h.since_expiry]

\* Lines 153-203.
check_password(request, x_password) ==
    /\ auth_log.calls < MaxAuthCalls
    /\ LET client_ip == get_client_ip(request)
           checked == is_blocked(_rate_limiter, client_ip, now)
           status == IF checked.blocked THEN 429
                     ELSE IF x_password # "correct" THEN 401
                     ELSE 200
       IN /\ _rate_limiter' =
                 IF checked.blocked THEN checked.rl
                 ELSE IF x_password # "correct"
                 THEN record_failure(checked.rl, client_ip, now)
                 ELSE reset(checked.rl, client_ip)
          /\ auth_log' = [calls |-> auth_log.calls + 1,
                           client |-> ClientOf(request),
                           x_password |-> x_password,
                           status |-> status,
                           of |-> [auth_log.of EXCEPT ![ClientOf(request)] =
                                       observe(@, status, now)]]
    /\ UNCHANGED head_vars
    /\ UNCHANGED not_auth_vars

\* The instants of the model: a block lasts 300 seconds, a failure counts
\* for 3600.
AuthTimes == {0, 300, 600, 3601, 3901}

\* time.time() advances.
AuthTick ==
    /\ \E t \in AuthTimes : t > now /\ now' = t
    /\ UNCHANGED <<_timestamps, stub, last_call, response, scrape_log>>
    /\ UNCHANGED <<validate_vars, config_vars, scrape_vars, pool_vars,
                   router_vars, extract_vars>>
    /\ UNCHANGED auth_vars
    /\ UNCHANGED not_auth_vars

\* The values of _access_counter the behaviours start from: 0 as constructed,
\* and 90 after ninety checks that left nothing in the dictionaries.
AccessCounters == {0, 90}

InitAuth ==
    /\ ValidateIdle
    /\ ScrapeIdle
    /\ SearchIdle
    /\ PoolIdle
    /\ RouterIdle
    /\ ExtractIdle
    /\ TruncateIdle
    /\ LateIdle
    /\ ConfigDefault
    /\ \E c \in AccessCounters :
         _rate_limiter = [failed_attempts |-> [ip \in AuthIps |-> NoAttempts],
                          blocked_ips |-> [ip \in AuthIps |-> -1],
                          _access_counter |-> c]
    /\ auth_log = NoHistory

NextAuth ==
    \/ \E request \in AuthRequests, x_password \in XPasswords :
           check_password(request, x_password)
    \/ AuthTick

SpecAuth == InitAuth /\ [][NextAuth]_vars

\* ---- C22: blocking after max_attempts failures ----
\* The step is a check_password call.
IsCheck == auth_log'.calls # auth_log.calls

\* What had been seen of the caller before the call.
Before == auth_log.of[auth_log'.client]

BlockExpired == Before.blocked_until # -1 /\ now >= Before.blocked_until

\* C30: once a client's block has run out its calls are evaluated again, and
\* it is answered 429 again only after max_attempts new failures, whether
\* is_blocked or cleanup took the block away.
CountRestartsAfterBlock ==
    [][(IsCheck /\ BlockExpired /\ auth_log'.status = 429)
        => Before.since_expiry >= max_attempts]_vars

(***************************************************************************)
(* The UI proxy: validate_proxy_path (server/utils/security.py) and the    *)
(* handlers ui_proxy and ui_api_proxy (server/apis/ui_proxy.py).  A path   *)
(* is the tuple of its characters; "NUL" stands for the character "\0",    *)
(* "s" for a character that is neither a hexadecimal digit nor a marker,   *)
(* and "?" for any other character a "%XX" group decodes to.               *)
(***************************************************************************)
HexDigits == {"0", "2", "5", "c", "e", "E", "f"}

\* urllib.parse.unquote, the character of the group "%" h1 h2.
hex_char(h1, h2) ==
    CASE h1 = "2" /\ h2 \in {"e", "E"} -> "."
      [] h1 = "2" /\ h2 = "f" -> "/"
      [] h1 = "5" /\ h2 = "c" -> "\\"
      [] h1 = "0" /\ h2 = "0" -> "NUL"
      [] h1 = "2" /\ h2 = "5" -> "%"
      [] OTHER -> "?"

\* urllib.parse.unquote: one pass over the string, left to right; a "%" and
\* the two hexadecimal digits after it become one character, and any other
\* "%" stays.  What a group decodes to is not scanned again.
RECURSIVE unquote(_)
unquote(s) ==
    IF s = <<>> THEN <<>>
    ELSE IF /\ s[1] = "%"
            /\ Len(s) >= 3
            /\ s[2] \in HexDigits
            /\ s[3] \in HexDigits
         THEN <<hex_char(s[2], s[3])>> \o unquote(SubSeq(s, 4, Len(s)))
         ELSE <<s[1]>> \o unquote(Tail(s))

\* Line 76: "\0" in decoded.
has_null(decoded) == \E i \in 1..Len(decoded) : decoded[i] = "NUL"

\* Line 80 with the backslash test left out.
has_traversal_dots_only(decoded) ==
    \E i \in 1..(Len(decoded) - 1) : decoded[i] = "." /\ decoded[i + 1] = "."

\* Line 80: ".." in decoded or "\\" in decoded.
has_traversal(decoded) ==
    \/ \E i \in 1..(Len(decoded) - 1) : decoded[i] = "." /\ decoded[i + 1] = "."
    \/ \E i \in 1..Len(decoded) : decoded[i] = "\\"

\* Line 70: for _ in range(5).
decode_passes == 5

\* Lines 70-88: the loop, from the pass numbered done + 1 on.  It gives the
\* string it ends with, whether it raised, and the passes it made.  The
\* except clause of line 86 raises a ValueError for the ValueError raised
\* inside the try.
RECURSIVE decode_loop(_, _)
decode_loop(decoded, done) ==
    IF done >= decode_passes
    THEN [raised |-> FALSE, decoded |-> decoded, passes |-> done]
    ELSE LET next == unquote(decoded)
         IN  IF has_null(next) \/ has_traversal(next)
             THEN [raised |-> TRUE, decoded |-> next, passes |-> done + 1]
             ELSE IF next = decoded
                  THEN [raised |-> FALSE, decoded |-> next,
                        passes |-> done + 1]
                  ELSE decode_loop(next, done + 1)

\* Line 96: decoded.startswith("/").
starts_with_slash(decoded) == Len(decoded) >= 1 /\ decoded[1] = "/"

\* Lines 60-99: validate_proxy_path(path).
validate_proxy_path(path) ==
    LET loop == decode_loop(path, 0)
    IN  IF loop.raised \/ starts_with_slash(loop.decoded)
        THEN [kind |-> "ValueError", status |-> 0, value |-> <<>>,
              passes |-> loop.passes]
        ELSE [kind |-> "returned", status |-> 0, value |-> path,
              passes |-> loop.passes]

\* A direct call of validate_proxy_path.
CallValidateProxyPath ==
    /\ p_request.endpoint = "validate_proxy_path"
    /\ p_outcome = NoOutcome
    /\ p_outcome' = validate_proxy_path(p_request.path)
    /\ UNCHANGED <<p_request, not_proxy_vars>>

\* Line 100 of ui_proxy.py: the largest body ui_api_proxy forwards.
max_body_bytes == 1000000

\* Lines 52-54 and 88-90: what the guard at the top of both handlers does
\* with the path.  validate_proxy_path is called outside the try statement,
\* so what it raises leaves the handler; when it returns a falsy value (the
\* empty path) the handler raises HTTPException 400.
path_guard(path) ==
    LET checked == validate_proxy_path(path)
    IN  IF checked.kind = "ValueError"
        THEN [kind |-> "ValueError", status |-> 0, value |-> <<>>,
              passes |-> checked.passes]
        ELSE IF checked.value = <<>>
             THEN [kind |-> "HTTPException", status |-> 400, value |-> <<>>,
                   passes |-> checked.passes]
             ELSE [kind |-> "passed", status |-> 0, value |-> path,
                   passes |-> checked.passes]

\* Lines 78-81 and 141-144: except Exception, which also catches the
\* HTTPException raised inside the try statement, answers 503.
except_exception(passes) ==
    [kind |-> "Response", status |-> 503, value |-> <<>>, passes |-> passes]

\* Lines 62-77 and 103-140: the answer of the upstream server is passed on.
upstream_response(upstream, passes) ==
    IF upstream = "raises"
    THEN except_exception(passes)
    ELSE [kind |-> "Response", status |-> 200, value |-> <<>>,
          passes |-> passes]

\* Lines 48-81: ui_proxy(path, request).
ui_proxy ==
    /\ p_request.endpoint = "/ui"
    /\ p_outcome = NoOutcome
    /\ LET guard == path_guard(p_request.path)
       IN  p_outcome' =
               IF guard.kind # "passed" THEN guard
               ELSE upstream_response(p_request.upstream, guard.passes)
    /\ UNCHANGED <<p_request, not_proxy_vars>>

\* Lines 84-144: ui_api_proxy(path, request).
ui_api_proxy ==
    /\ p_request.endpoint = "/ui-api"
    /\ p_outcome = NoOutcome
    /\ LET guard == path_guard(p_request.path)
       IN  p_outcome' =
               IF guard.kind # "passed" THEN guard
               ELSE IF p_request.body_len > max_body_bytes
                    THEN except_exception(guard.passes)
                    ELSE upstream_response(p_request.upstream, guard.passes)
    /\ UNCHANGED <<p_request, not_proxy_vars>>

\* ---- the paths and requests explored ----
MaxEncoding == 6
MaxUnits == 3

\* The two hexadecimal digits of a character.
hex_of(c) ==
    CASE c = "." -> <<"2", "e">>
      [] c = "/" -> <<"2", "f">>
      [] c = "\\" -> <<"5", "c">>
      [] c = "NUL" -> <<"0", "0">>
      [] c = "%" -> <<"2", "5">>

\* The character c percent-encoded k times: "." is ".", "%2e", "%252e", ...
RECURSIVE encode(_, _)
encode(c, k) ==
    IF k = 0 THEN <<c>>
    ELSE IF k = 1 THEN <<"%">> \o hex_of(c)
    ELSE <<"%", "2", "5">> \o Tail(encode(c, k - 1))

\* The pieces the paths are made of: the dot at every depth of encoding, the
\* slash plain, encoded once and at the two deepest encodings, the other
\* markers and the percent sign plain and encoded once, a plain character,
\* and the dot encoded in capitals.
Units ==
    {encode(".", k) : k \in 0..MaxEncoding}
    \cup {encode("/", k) : k \in {0, 1, MaxEncoding - 1, MaxEncoding}}
    \cup {encode(c, k) : c \in {"\\", "NUL", "%"}, k \in 0..1}
    \cup {<<"s">>, <<"%", "2", "E">>}

RECURSIVE Flatten(_)
Flatten(us) == IF us = <<>> THEN <<>> ELSE Head(us) \o Flatten(Tail(us))

PathsOf(n) == {Flatten(us) : us \in [1..n -> Units]}

\* "assets/%252e%252e/secret", "/etc", "", "assets/s" and "%25s".
ExamplePaths ==
    {<<"s", "/">> \o encode(".", 2) \o encode(".", 2) \o <<"/", "s">>,
     <<"/", "s">>,
     <<>>,
     <<"s", "/", "s">>,
     <<"%", "2", "5", "s">>,
     <<".", ".", "/", "s">>}

BodyLengths == {0, 1000000, 1000001}
Upstreams == {"answers", "raises"}

InitProxy ==
    /\ ValidateIdle
    /\ ScrapeIdle
    /\ SearchIdle
    /\ PoolIdle
    /\ RouterIdle
    /\ ExtractIdle
    /\ TruncateIdle
    /\ AuthIdle
    /\ LimiterIdle
    /\ SemaphoreIdle
    /\ CacheIdle
    /\ ConfigDefault
    /\ p_outcome = NoOutcome
    /\ \/ \E n \in 0..MaxUnits : \E path \in PathsOf(n) :
              p_request = [endpoint |-> "validate_proxy_path", path |-> path,
                           body_len |-> 0, upstream |-> "none"]
       \/ \E path \in ExamplePaths, upstream \in Upstreams :
              p_request = [endpoint |-> "/ui", path |-> path, body_len |-> 0,
                           upstream |-> upstream]
       \/ \E path \in ExamplePaths, body_len \in BodyLengths,
             upstream \in Upstreams :
              p_request = [endpoint |-> "/ui-api", path |-> path,
                           body_len |-> body_len, upstream |-> upstream]

NextProxy == CallValidateProxyPath \/ ui_proxy \/ ui_api_proxy

SpecProxy == InitProxy /\ [][NextProxy]_vars

\* ---- what the contract of validate_proxy_path says ----
\* The path after k decoding passes.
RECURSIVE DecodedTimes(_, _)
DecodedTimes(path, k) ==
    IF k = 0 THEN path ELSE unquote(DecodedTimes(path, k - 1))

HasMarker(s) ==
    \/ \E i \in 1..(Len(s) - 1) : s[i] = "." /\ s[i + 1] = "."
    \/ \E i \in 1..Len(s) : s[i] \in {"\\", "NUL"}

Dangerous(path) ==
    \/ \E k \in 0..decode_passes : HasMarker(DecodedTimes(path, k))
    \/ LET final == DecodedTimes(path, decode_passes)
       IN  Len(final) >= 1 /\ final[1] = "/"

ValidateCalled ==
    /\ p_request.endpoint = "validate_proxy_path"
    /\ p_outcome # NoOutcome

\* C23: validate_proxy_path returns its argument unchanged for a safe
\* relative path, and raises for every path that shows "..", a backslash or a
\* NUL character after some number of decoding passes up to the bound of the
\* loop, or whose decoded form starts with "/"; the loop makes at most 5
\* passes.
ProxyPathContract ==
    ValidateCalled =>
        /\ p_outcome.passes <= 5
        /\ Dangerous(p_request.path) <=> p_outcome.kind = "ValueError"
        /\ ~Dangerous(p_request.path) =>
               /\ p_outcome.kind = "returned"
               /\ p_outcome.value = p_request.path

\* "%252e%252es", encoded twice, is refused at the second pass.
ProxyPathWitness ==
    /\ ValidateCalled
    /\ p_request.path = encode(".", 2) \o encode(".", 2) \o <<"s">>
    /\ p_outcome.kind = "ValueError"
    /\ p_outcome.passes = 2

\* "%25s" changes under decoding, is safe, and is returned as it came.
ProxyPathReturnedWitness ==
    /\ ValidateCalled
    /\ p_request.path = encode("%", 1) \o <<"s">>
    /\ p_outcome.kind = "returned"
    /\ p_outcome.value = p_request.path

\* ---- what the proxy endpoints owe their clients ----
ProxyAnswered ==
    /\ p_request.endpoint \in {"/ui", "/ui-api"}
    /\ p_outcome # NoOutcome

\* C24: a request to /ui/{path} or /ui-api/{path} whose path is a traversal
\* attempt is answered 400, and a request to /ui-api whose body is longer
\* than 1,000,000 bytes raises HTTPException 413; neither ends as a 500 or a
\* 503.
ProxyRejectionsKeepStatus ==
    ProxyAnswered =>
        /\ Dangerous(p_request.path) =>
               /\ p_outcome.kind = "HTTPException"
               /\ p_outcome.status = 400
        /\ ( /\ p_request.endpoint = "/ui-api"
             /\ ~Dangerous(p_request.path)
             /\ p_request.path # <<>>
             /\ p_request.body_len > 1000000 ) =>
               /\ p_outcome.kind = "HTTPException"
               /\ p_outcome.status = 413

\* The body of 1,000,001 bytes sent to /ui-api/s/s is answered 503.
OversizedBodyAnswered503 ==
    /\ ProxyAnswered
    /\ p_request.endpoint = "/ui-api"
    /\ p_request.path = <<"s", "/", "s">>
    /\ p_request.body_len = 1000001
    /\ p_request.upstream = "answers"
    /\ p_outcome.kind = "Response"
    /\ p_outcome.status = 503

\* The ValueError of validate_proxy_path leaves ui_proxy as it is.
TraversalLeavesAsValueError ==
    /\ ProxyAnswered
    /\ p_request.endpoint = "/ui"
    /\ Dangerous(p_request.path)
    /\ p_outcome.kind = "ValueError"

(***************************************************************************)
(* _BoundedTTLCache on its own (search_router.py lines 27-65): any         *)
(* sequence of get, set and cleanup_expired, with time passing.            *)
(***************************************************************************)
\* Lines 56-65: cleanup_expired; the entries that are not expired stay, in
\* their order.
cleanup_expired(cache, t) ==
    LET fresh(entry) == ~expired(entry, t) IN SelectSeq(cache, fresh)

\* The value stored by the set calls of this specification.
CachedValue == [needs_search |-> TRUE, reason |-> "model"]

\* The key becomes the most recently used one.
Touch(lru, key) ==
    LET other(k) == k # key IN Append(SelectSeq(lru, other), key)

CacheGet(key) ==
    /\ LET got == cache_get(_intent_cache, key, now) IN
       /\ _intent_cache' = got.cache
       /\ cache_op' = [op |-> "get", key |-> key,
                       lru |-> IF got.hit THEN Touch(cache_op.lru, key)
                               ELSE cache_op.lru]
    /\ UNCHANGED <<_max_size, intent_calls, decided, used_since>>
    /\ UNCHANGED <<validate_vars, config_vars, scrape_vars, search_vars,
                   pool_vars, extract_vars, truncate_vars, auth_vars,
                   proxy_vars, limiter_vars, scrapers>>

CacheSet(key) ==
    /\ _intent_cache' = cache_set(_intent_cache, key, CachedValue, now)
    /\ cache_op' = [op |-> "set", key |-> key,
                    lru |-> Touch(cache_op.lru, key)]
    /\ UNCHANGED <<_max_size, intent_calls, decided, used_since>>
    /\ UNCHANGED <<validate_vars, config_vars, scrape_vars, search_vars,
                   pool_vars, extract_vars, truncate_vars, auth_vars,
                   proxy_vars, limiter_vars, scrapers>>

CacheCleanup ==
    /\ _intent_cache' = cleanup_expired(_intent_cache, now)
    /\ cache_op' = [op |-> "cleanup_expired", key |-> "none",
                    lru |-> cache_op.lru]
    /\ UNCHANGED <<_max_size, intent_calls, decided, used_since>>
    /\ UNCHANGED <<validate_vars, config_vars, scrape_vars, search_vars,
                   pool_vars, extract_vars, truncate_vars, auth_vars,
                   proxy_vars, limiter_vars, scrapers>>

\* The instants at which the cache is used: an entry of time 0 is fresh at
\* 120 and expired at 121.
CacheTimes == {0, 60, 120, 121, 181}

CacheTick ==
    /\ \E t \in CacheTimes : t > now /\ now' = t
    /\ UNCHANGED <<_timestamps, stub, last_call, response, scrape_log>>
    /\ UNCHANGED <<validate_vars, config_vars, scrape_vars, pool_vars,
                   rest_vars>>

InitCache ==
    /\ ValidateIdle
    /\ ScrapeIdle
    /\ SearchIdle
    /\ PoolIdle
    /\ ConfigDefault
    /\ ExtractIdle
    /\ TruncateIdle
    /\ AuthIdle
    /\ ProxyIdle
    /\ LimiterIdle
    /\ SemaphoreIdle
    /\ _intent_cache = <<>>
    /\ _max_size \in 1..MaxCacheSize
    /\ intent_calls = [c \in IntentCalls |-> IdleCall]
    /\ decided = [k \in Keys |-> NoDecision]
    /\ used_since = [k \in Keys |-> {}]
    /\ cache_op = NoCacheOp

NextCache ==
    \/ \E key \in Keys : CacheGet(key)
    \/ \E key \in Keys : CacheSet(key)
    \/ CacheCleanup
    \/ CacheTick

SpecCache == InitCache /\ [][NextCache]_vars

\* ---- what the cache owes its users ----
KeysOf(cache) == {cache[i].key : i \in 1..Len(cache)}

\* The key of the cache that was used longest ago.
LeastRecentlyUsed(cache, lru) ==
    LET present == {i \in 1..Len(lru) : lru[i] \in KeysOf(cache)}
    IN  lru[CHOOSE i \in present : \A j \in present : i <= j]

\* The unexpired entries of the cache whose key the step takes out.
RemovedUnexpired ==
    {i \in 1..Len(_intent_cache) :
        /\ ~expired(_intent_cache[i], now)
        /\ _intent_cache[i].key \notin KeysOf(_intent_cache')}

InsertsNewKeyAtCapacity ==
    /\ cache_op'.op = "set"
    /\ cache_op'.key \notin KeysOf(_intent_cache)
    /\ Len(_intent_cache) = _max_size

CacheStep == cache_op' # cache_op \/ _intent_cache' # _intent_cache

\* C29: the cache never holds more entries than its capacity; an unexpired
\* entry goes only when a new key is inserted into a full cache, and then it
\* is the least recently used one; a set on a key that is present takes no
\* other entry out.
CacheKeepsEntries ==
    [][ CacheStep =>
          /\ Len(_intent_cache') <= _max_size
          /\ RemovedUnexpired # {} =>
                /\ InsertsNewKeyAtCapacity
                /\ \A i \in RemovedUnexpired :
                      _intent_cache[i].key =
                          LeastRecentlyUsed(_intent_cache, cache_op.lru)
          /\ ( cache_op'.op = "set" /\ cache_op'.key \in KeysOf(_intent_cache) )
                => KeysOf(_intent_cache) \subseteq KeysOf(_intent_cache')
      ]_vars

\* The cache of capacity 2 holds two entries, one of them set twice.
FullCacheSetAgain ==
    /\ _max_size = 2
    /\ Len(_intent_cache) = 1
    /\ cache_op.op = "set"
    /\ cache_op.key \in KeysOf(_intent_cache)
    /\ Len(cache_op.lru) = 2

(***************************************************************************)
(* Concurrent search() calls and the rate limiter (web_search.py lines     *)
(* 111-176 and 238-251).  The calls are coroutines of one event loop: a    *)
(* coroutine runs without interruption from one suspension to the next.    *)
(* _enforce_rate_limit holds no await, so awaiting it does not suspend.    *)
(***************************************************************************)
\* A plausible slip: the call is admitted and its time is not recorded.
_enforce_rate_limit_unrecorded(timestamps, t) ==
    IF _rate_limit = 0
    THEN [raised |-> FALSE, recorded |-> FALSE, timestamps |-> timestamps]
    ELSE LET kept == prune(timestamps, t - 60) IN
         IF rate_limit_reached(kept)
         THEN [raised |-> TRUE, recorded |-> FALSE, timestamps |-> kept]
         ELSE [raised |-> FALSE, recorded |-> TRUE, timestamps |-> kept]

\* Lines 238-251: _enforce_rate_limit at time t; whether it raised the 429,
\* whether it recorded the time, and the deque it leaves.
_enforce_rate_limit(timestamps, t) ==
    IF _rate_limit = 0
    THEN [raised |-> FALSE, recorded |-> FALSE, timestamps |-> timestamps]
    ELSE LET kept == prune(timestamps, t - 60) IN
         IF rate_limit_reached(kept)
         THEN [raised |-> TRUE, recorded |-> FALSE, timestamps |-> kept]
         ELSE [raised |-> FALSE, recorded |-> TRUE,
               timestamps |-> Append(kept, t)]

not_limiter_vars ==
    <<now, stub, last_call, response, scrape_log, validate_vars, config_vars,
      scrape_vars, pool_vars, router_vars, extract_vars, truncate_vars,
      auth_vars, proxy_vars, scrapers, cache_op>>

\* Lines 115-119: search() from the call to its first suspension: the length
\* test (the queries of this specification pass it) and _enforce_rate_limit.
SearchAdmit(c) ==
    /\ limiter_calls[c].pc = "idle"
    /\ LET limit == _enforce_rate_limit(_timestamps, now) IN
       /\ _timestamps' = limit.timestamps
       /\ limiter_calls' =
              [limiter_calls EXCEPT ![c] =
                  IF limit.raised THEN [pc |-> "raised", t |-> -1]
                  ELSE [pc |-> "searching",
                        t |-> IF _rate_limit = 0 THEN -1 ELSE now]]
       /\ admitted' = IF limit.raised \/ _rate_limit = 0 THEN admitted
                      ELSE Append(admitted, now)
    /\ UNCHANGED not_limiter_vars

\* Lines 135-176: the strategy is awaited, other calls run meanwhile, and the
\* call returns.
SearchReturn(c) ==
    /\ limiter_calls[c].pc = "searching"
    /\ limiter_calls' = [limiter_calls EXCEPT ![c].pc = "returned"]
    /\ UNCHANGED <<_timestamps, admitted>>
    /\ UNCHANGED not_limiter_vars

\* The client calls search() again.
SearchAgain(c) ==
    /\ limiter_calls[c].pc \in {"returned", "raised"}
    /\ limiter_calls' = [limiter_calls EXCEPT ![c] = NoSearchCall]
    /\ UNCHANGED <<_timestamps, admitted>>
    /\ UNCHANGED not_limiter_vars

InitLimiter ==
    /\ ValidateIdle
    /\ ScrapeIdle
    /\ PoolIdle
    /\ RouterIdle
    /\ ExtractIdle
    /\ TruncateIdle
    /\ AuthIdle
    /\ ProxyIdle
    /\ SemaphoreIdle
    /\ CacheIdle
    /\ LimiterIdle
    /\ allowed_domains = {}
    /\ _rate_limit \in RateLimits
    /\ now = 0
    /\ _timestamps = <<>>
    /\ stub = CHOOSE st \in RateStubs : TRUE
    /\ last_call = NoCall
    /\ response = NoResponse
    /\ scrape_log = <<>>

NextLimiter ==
    \/ Tick
    \/ \E c \in LimiterCalls : SearchAdmit(c)
    \/ \E c \in LimiterCalls : SearchReturn(c)
    \/ \E c \in LimiterCalls : SearchAgain(c)

SpecLimiter == InitLimiter /\ [][NextLimiter]_vars

\* ---- what the rate limiter guarantees under concurrency ----
\* The admitted calls whose time lies in the 60 seconds up to T.
AdmittedInWindow(T) ==
    {i \in 1..Len(admitted) : T - 60 <= admitted[i] /\ admitted[i] <= T}

Occurrences(seq, t) == Cardinality({i \in 1..Len(seq) : seq[i] = t})

\* C25: whatever the interleaving of the search() calls, the calls admitted
\* with a time inside any trailing window of 60 seconds never outnumber the
\* ceiling, and the time of every admitted call of the current window is in
\* the deque, once per call.
LimiterAtomic ==
    _rate_limit # 0 =>
        /\ \A T \in 0..MaxClock :
              Cardinality(AdmittedInWindow(T)) <= _rate_limit
        /\ \A i \in 1..Len(admitted) :
              admitted[i] >= now - 60 =>
                  Occurrences(_timestamps, admitted[i])
                      = Occurrences(admitted, admitted[i])
        /\ \A i \in 1..Len(_timestamps) :
              Occurrences(admitted, _timestamps[i]) >= 1

\* Two calls admitted at the same instant are under way, and the third call
\* made meanwhile was refused.
LimiterWitness ==
    /\ _rate_limit = 2
    /\ limiter_calls[1].pc = "searching"
    /\ limiter_calls[2].pc = "searching"
    /\ limiter_calls[1].t = limiter_calls[2].t
    /\ limiter_calls[3].pc = "raised"
    /\ Len(_timestamps) = 2

(***************************************************************************)
(* Concurrent _scrape_url calls and the semaphore (web_search.py line 55   *)
(* and lines 585-632).  The calls are the scrape tasks of all the search() *)
(* calls under way, whatever their depth and phase: every one of them goes *)
(* through the same self._scrape_semaphore.  A scraper is at "idle" before *)
(* the call, at "waiting" inside the acquire of `async with`, at           *)
(* "validate" and "get" inside the block, before and after a redirect      *)
(* ("_hop"), and at "done" once it has left the block.  The web of this    *)
(* specification redirects a scrape at most once.                          *)
(***************************************************************************)
InsideBlock == {"validate", "get", "validate_hop", "get_hop"}

Inside == {s \in Scrapers : scrapers[s] \in InsideBlock}

\* A plausible slip: the slot is not given back when the block is left.
slots_after_exit_kept(slots) == slots

\* Line 589: `async with` gives the slot back however the block is left: by
\* a return, by the end of the block, by an exception.
slots_after_exit(slots) == slots + 1

not_scraper_vars ==
    <<s_pc, s_url, current_url, redirect_count, resp, s_result, requests,
      validations, connected_to, validate_vars, config_vars, search_vars,
      pool_vars, router_vars, extract_vars, truncate_vars, auth_vars,
      proxy_vars, limiter_vars, cache_op>>

\* Lines 585-589: a URL that is not allowed returns "" before the semaphore;
\* any other takes a slot at once when one is free and waits otherwise.
ScraperEnter(s, allowed) ==
    /\ scrapers[s] = "idle"
    /\ IF ~allowed
       THEN /\ scrapers' = [scrapers EXCEPT ![s] = "done"]
            /\ UNCHANGED _scrape_semaphore
       ELSE IF _scrape_semaphore > 0
       THEN /\ scrapers' = [scrapers EXCEPT ![s] = "validate"]
            /\ _scrape_semaphore' = _scrape_semaphore - 1
       ELSE /\ scrapers' = [scrapers EXCEPT ![s] = "waiting"]
            /\ UNCHANGED _scrape_semaphore
    /\ UNCHANGED not_scraper_vars

\* Line 589: a waiting acquire gets a slot that was given back.
ScraperAcquire(s) ==
    /\ scrapers[s] = "waiting"
    /\ _scrape_semaphore > 0
    /\ scrapers' = [scrapers EXCEPT ![s] = "validate"]
    /\ _scrape_semaphore' = _scrape_semaphore - 1
    /\ UNCHANGED not_scraper_vars

\* Lines 598-609: the executor job running validate_url ends; the hop is
\* safe, or it is unsafe and the call returns "", or the job raised.
ScraperValidate(s, outcome) ==
    /\ scrapers[s] \in {"validate", "validate_hop"}
    /\ IF outcome = "safe"
       THEN /\ scrapers' = [scrapers EXCEPT ![s] =
                   IF scrapers[s] = "validate" THEN "get" ELSE "get_hop"]
            /\ UNCHANGED _scrape_semaphore
       ELSE /\ scrapers' = [scrapers EXCEPT ![s] = "done"]
            /\ _scrape_semaphore' = slots_after_exit(_scrape_semaphore)
    /\ UNCHANGED not_scraper_vars

\* Lines 611-632: client.get ends, within TIMEOUT_FAST; a redirect goes back
\* to the validation, a page or a failure leaves the block.
ScraperGet(s, outcome) ==
    /\ scrapers[s] \in {"get", "get_hop"}
    /\ outcome = "redirect" => scrapers[s] = "get"
    /\ IF outcome = "redirect"
       THEN /\ scrapers' = [scrapers EXCEPT ![s] = "validate_hop"]
            /\ UNCHANGED _scrape_semaphore
       ELSE /\ scrapers' = [scrapers EXCEPT ![s] = "done"]
            /\ _scrape_semaphore' = slots_after_exit(_scrape_semaphore)
    /\ UNCHANGED not_scraper_vars

ValidationOutcomes == {"safe", "unsafe", "exception"}
GetOutcomes == {"page", "redirect", "exception"}

InitScrapers ==
    /\ ValidateIdle
    /\ ScrapeIdle
    /\ SearchIdle
    /\ PoolIdle
    /\ RouterIdle
    /\ ExtractIdle
    /\ TruncateIdle
    /\ AuthIdle
    /\ ProxyIdle
    /\ LimiterIdle
    /\ CacheIdle
    /\ ConfigDefault
    /\ scrapers = [s \in Scrapers |-> "idle"]

NextScrapers ==
    \/ \E s \in Scrapers, allowed \in BOOLEAN : ScraperEnter(s, allowed)
    \/ \E s \in Scrapers : ScraperAcquire(s)
    \/ \E s \in Scrapers, outcome \in ValidationOutcomes :
           ScraperValidate(s, outcome)
    \/ \E s \in Scrapers, outcome \in GetOutcomes : ScraperGet(s, outcome)

SpecScrapers == InitScrapers /\ [][NextScrapers]_vars

\* C28: at most 5 scrapes are between the acquire and the release of the
\* semaphore at any time, and every scrape that left the block, however it
\* left, gave its slot back: the free slots and the scrapes inside add up
\* to 5.
ScrapeCap ==
    /\ Cardinality(Inside) <= 5
    /\ _scrape_semaphore + Cardinality(Inside) = 5
    /\ _scrape_semaphore >= 0

\* Five scrapes are inside the block and the sixth waits for a slot.
ScrapeCapWitness ==
    /\ Cardinality(Inside) = 5
    /\ _scrape_semaphore = 0
    /\ \E s \in Scrapers : scrapers[s] = "waiting"

\* ---- the same calls under the scheduling the code can count on ----
\* The event loop runs every task that is ready, the semaphore wakes its
\* waiters when a slot is given back, and client.get ends within
\* TIMEOUT_FAST.  Nothing bounds the executor job of the validation: it ends
\* when getaddrinfo ends (lines 600-603 hold no timeout).
FairScrapers ==
    \A s \in Scrapers :
        /\ WF_vars(\E allowed \in BOOLEAN : ScraperEnter(s, allowed))
        /\ SF_vars(ScraperAcquire(s))
        /\ WF_vars(\E outcome \in GetOutcomes : ScraperGet(s, outcome))

SpecScrapersFair == InitScrapers /\ [][NextScrapers]_vars /\ FairScrapers

\* C27: every search() call returns in the end.  search() awaits the join
\* (asyncio.gather) of its _scrape_url calls, so it returns only once each
\* of them has returned: every scrape reaches "done", also when a DNS
\* validation never completes.
EverySearchReturns == \A s \in Scrapers : <>(scrapers[s] = "done")

(***************************************************************************)
(* The provider-client pool under concurrency: who holds an instance.      *)
(***************************************************************************)
\* The instances that a worker thread uses, or will use once it takes the
\* work item: a cancelled work item is dropped without running.
InUse ==
    {job.inst : job \in running}
    \cup {work_queue[k].inst : k \in {k \in 1..Len(work_queue) :
             work_queue[k].kind = "ddgs" /\ ~work_queue[k].cancelled}}

\* The instances a call can check out, now or after the loop ran the
\* put_nowait callbacks that are ready.
Free == Range(_ddgs_pool) \cup Range(loop_ready)

\* C26: no instance is used by two worker threads at once, and an instance
\* is in the pool, or on its way into it, only when no worker uses it or is
\* going to; this also holds after the awaiting call gave up on its timeout.
InstanceExclusive ==
    /\ \A j1, j2 \in running : j1.inst = j2.inst => j1 = j2
    /\ \A k1, k2 \in 1..Len(work_queue) :
          ( /\ k1 # k2
            /\ work_queue[k1].kind = "ddgs"
            /\ work_queue[k2].kind = "ddgs" )
              => work_queue[k1].inst # work_queue[k2].inst
    /\ InUse \cap Free = {}
    /\ \A i, j \in 1..Len(_ddgs_pool) : i # j => _ddgs_pool[i] # _ddgs_pool[j]

\* The call gave up on its timeout, its worker is still running, and the
\* instance is not in the pool.
TimedOutWorkerStillRunning ==
    \E job \in running, c \in Calls :
        /\ job.call = 0
        /\ c_pc[c] = "returned"
        /\ job.inst \notin Free
        /\ Len(_ddgs_pool) < PoolSize

====
